---- MODULE Spec2Model ----
(***************************************************************************)
(* A model of the validation-and-migration engine of Plasius-LTD/schema:   *)
(* createSchema(...).validate / .upgrade and the helpers they call         *)
(* (src/unnamed/part_002, the schema module; src/unnamed/part_004, the PII *)
(* module).                                                                *)
(*                                                                         *)
(* JavaScript values are tagged records, so that values of different       *)
(* types can be compared (=== is equality of the tagged records for        *)
(* primitives).  Objects are functions from their own keys to values,      *)
(* arrays are sequences.                                                   *)
(***************************************************************************)
EXTENDS Integers, Sequences, FiniteSets, TLC

VARIABLES
  schema,    \* the schema created by createSchema: shape, meta, options
  op,        \* the method the caller invokes: "validate" or "upgrade"
  input,     \* the caller's input object, as it is now (objects are shared by reference)
  input0,    \* the caller's input as it was when the call was made
  existing,  \* the `existing` argument of validate (Undefined when omitted)
  pc,        \* position of the call: "call", "loop", "done"
  working,   \* validate: the working copy
  result,    \* validate: the result object being assembled
  errors,    \* validate: the errors collected so far
  idx,       \* validate: position of the field loop in the shape
  trace,     \* the calls made so far to caller-supplied functions and to the per-field checks
  ret,       \* the value returned by the call (Undefined until it returns)
  globalSchemaRegistry,  \* the schemas registered by entity type
  entities,  \* what the caller's resolveEntity answers, by "type:id"
  callOptions,  \* validateComposition: the options object of the top-level call
  stack,     \* validateComposition: the calls that are awaiting, innermost last
  contexts   \* validateComposition: the validatorContext objects created so far

compositionVars == <<globalSchemaRegistry, entities, callOptions, stack, contexts>>

vars == <<schema, op, input, input0, existing, pc, working, result, errors, idx, trace, ret,
          globalSchemaRegistry, entities, callOptions, stack, contexts>>

----------------------------------------------------------------------------
(* JavaScript values *)

Undefined == [t |-> "undefined"]
Null == [t |-> "null"]
Str(s) == [t |-> "string", s |-> s]
Num(n) == [t |-> "number", n |-> n]
Bool(b) == [t |-> "boolean", b |-> b]
Obj(o) == [t |-> "object", o |-> o]
Arr(a) == [t |-> "array", a |-> a]

EmptyObj == Obj(<<>>)

IsNullish(v) == v.t \in {"undefined", "null"}
IsObject(v) == v.t = "object"
IsArray(v) == v.t = "array"

\* typeof v
TypeOf(v) ==
  CASE v.t = "string" -> "string"
    [] v.t = "number" -> "number"
    [] v.t = "boolean" -> "boolean"
    [] v.t = "undefined" -> "undefined"
    [] OTHER -> "object"

\* obj[key]
Get(obj, key) == IF IsObject(obj) /\ key \in DOMAIN obj.o THEN obj.o[key] ELSE Undefined

\* obj[key] = v
Put(obj, key, v) ==
  Obj([k \in (DOMAIN obj.o) \cup {key} |-> IF k = key THEN v ELSE obj.o[k]])

HasKey(obj, key) == IsObject(obj) /\ key \in DOMAIN obj.o

\* String(v) and template interpolation `${v}` for the values of the model
ToStr(v) ==
  CASE v.t = "string" -> v.s
    [] v.t = "number" -> ToString(v.n)
    [] v.t = "boolean" -> (IF v.b THEN "true" ELSE "false")
    [] v.t = "undefined" -> "undefined"
    [] v.t = "null" -> "null"
    [] OTHER -> "[object Object]"

\* arr.join(", ")
RECURSIVE Join(_)
Join(a) ==
  IF Len(a) = 0 THEN ""
  ELSE IF Len(a) = 1 THEN ToStr(a[1])
  ELSE ToStr(a[1]) \o ", " \o Join(Tail(a))

\* values.includes(v)
Includes(a, v) == \E i \in 1..Len(a) : a[i] = v

\* arr.filter((v) => !values.includes(v))
RECURSIVE FilterNotIn(_, _)
FilterNotIn(a, values) ==
  IF Len(a) = 0 THEN <<>>
  ELSE (IF Includes(values, a[1]) THEN <<>> ELSE <<a[1]>>) \o FilterNotIn(Tail(a), values)

----------------------------------------------------------------------------
(* Versions.  A version is a string; split(".") is tabulated for the       *)
(* strings of the model, parseInt(n, 10) for their components.             *)

NaN == -1

Split(v) ==
  CASE v = "0.0.0" -> <<"0", "0", "0">>
    [] v = "1.0.0" -> <<"1", "0", "0">>
    [] v = "1.1.0" -> <<"1", "1", "0">>
    [] v = "1.2.0" -> <<"1", "2", "0">>
    [] v = "2.0.0" -> <<"2", "0", "0">>
    [] v = "3.0.0" -> <<"3", "0", "0">>
    [] v = "1.x.0" -> <<"1", "x", "0">>
    [] v = "1.1x.0" -> <<"1", "1x", "0">>
    [] v = "1..0" -> <<"1", "", "0">>
    [] v = "x.1.0" -> <<"x", "1", "0">>
    [] v = "1.0.x" -> <<"1", "0", "x">>
    [] v = "1.0" -> <<"1", "0">>
    [] v = "1" -> <<"1">>
    [] v = "1.1" -> <<"1", "1">>
    [] v = "2" -> <<"2">>
    [] OTHER -> <<v>>

parseInt(n) ==
  CASE n = "0" -> 0
    [] n = "1" -> 1
    [] n = "2" -> 2
    [] n = "3" -> 3
    [] n = "1x" -> 1
    [] OTHER -> NaN

\* pa[i] ?? 0 : a missing component is 0, a NaN component stays NaN
Component(p, i) == IF i <= Len(p) THEN parseInt(p[i]) ELSE 0

\* ai > bi and ai < bi of JavaScript numbers: false when either side is NaN
NumGt(a, b) == a # NaN /\ b # NaN /\ a > b
NumLt(a, b) == a # NaN /\ b # NaN /\ a < b

RECURSIVE cmpFrom(_, _, _)
cmpFrom(pa, pb, i) ==
  IF i > 3 THEN 0
  ELSE IF NumGt(Component(pa, i), Component(pb, i)) THEN 1
  ELSE IF NumLt(Component(pa, i), Component(pb, i)) THEN -1
  ELSE cmpFrom(pa, pb, i + 1)

cmpSemver(a, b) == cmpFrom(Split(a), Split(b), 1)

\* cmpSemver(a, b) called on the two strings of the input
CmpSemver ==
  /\ pc = "call"
  /\ op = "cmpSemver"
  /\ ret' = Num(cmpSemver(input.o.a.s, input.o.b.s))
  /\ pc' = "done"
  /\ UNCHANGED <<schema, op, input, input0, existing, working, result, errors, idx, trace>>
  /\ UNCHANGED compositionVars

\* validateSemVer: /^(\d+)\.(\d+)\.(\d+)$/ on the strings of the model
validateSemVer(value) ==
  /\ value.t = "string"
  /\ Len(Split(value.s)) = 3
  /\ \A i \in 1..3 : parseInt(Split(value.s)[i]) # NaN

----------------------------------------------------------------------------
(* The upgrade engine: applySchemaUpgrade.                                 *)
(* A SchemaUpgradeSpec is [kind |-> "none"] (no schemaUpgrade option),     *)
(* [kind |-> "function", run |-> b] or [kind |-> "steps", steps |-> seq of *)
(* [to |-> version, run |-> b]].  The caller's functions are drawn from a  *)
(* small set of behaviours b.                                              *)

\* !v is false
Truthy(v) ==
  CASE v.t \in {"undefined", "null"} -> FALSE
    [] v.t = "string" -> v.s # ""
    [] v.t = "number" -> v.n # 0
    [] v.t = "boolean" -> v.b
    [] OTHER -> TRUE

\* The key a marking step adds to the entity, naming the step's target
Marker(to) == "s" \o to

\* A caller-supplied upgrade function (SchemaUpgradeFunction or step.run)
\* applied to (value, ctx); the result is {ok, value?, errors?}.
RunUpgrader(run, value, ctx) ==
  CASE run = "mark" ->
         [ok |-> TRUE, value |-> Put(value, Marker(ctx.to), Bool(TRUE)), errors |-> <<>>]
    [] run = "setF" ->
         [ok |-> TRUE, value |-> Put(value, "f", Str("A")), errors |-> <<>>]
    [] run = "restamp" ->
         [ok |-> TRUE,
          value |-> Put(Put(value, "type", Str("B")), "version", Str("0.0.0")),
          errors |-> <<>>]
    [] run = "fail" -> [ok |-> FALSE, value |-> Undefined, errors |-> <<"boom">>]
    [] run = "failQuiet" -> [ok |-> FALSE, value |-> Undefined, errors |-> <<>>]
    [] OTHER (* "noValue" *) -> [ok |-> TRUE, value |-> Undefined, errors |-> <<>>]

\* The record of one call of a caller-supplied upgrade function
UpgradeCall(run, to, from, arg) ==
  [fn |-> "schemaUpgrade", run |-> run, to |-> to, from |-> from, arg |-> arg]

\* [...spec].sort((s1, s2) => cmpSemver(s1.to, s2.to)): a stable sort
RECURSIVE InsertStep(_, _)
InsertStep(sorted, s) ==
  IF Len(sorted) = 0 THEN <<s>>
  ELSE IF cmpSemver(sorted[Len(sorted)].to, s.to) <= 0 THEN Append(sorted, s)
  ELSE Append(InsertStep(SubSeq(sorted, 1, Len(sorted) - 1), s), sorted[Len(sorted)])

\* The steps taken in the order of their declaration
SortSteps_declared(steps) == steps

RECURSIVE SortSteps(_)
SortSteps(steps) ==
  IF Len(steps) = 0 THEN <<>>
  ELSE InsertStep(SortSteps(SubSeq(steps, 1, Len(steps) - 1)), steps[Len(steps)])

\* The gate of one step of the cascade
StepApplies(fromVersion, stepTo, target) ==
  cmpSemver(fromVersion, stepTo) < 0 /\ cmpSemver(stepTo, target) <= 0

\* The errors of a failed upgrade taken as the upgrader gave them
UpgradeErrors_asGiven(res, from, to) == res.errors

\* res.errors?.length ? res.errors : [`Failed to upgrade entity from v.. to v..`]
UpgradeErrors(res, from, to) ==
  IF Len(res.errors) > 0 THEN res.errors
  ELSE <<"Failed to upgrade entity from v" \o from \o " to v" \o to>>

\* A test of the upgrade result that looks at the reported errors only
UpgradeFailed_byErrors(res) == Len(res.errors) > 0

\* !res || res.ok !== true || !res.value
UpgradeFailed(res) == ~res.ok \/ ~Truthy(res.value)

\* A loop over the sorted steps that passes over a failing step and goes on
\* with the value it had
RECURSIVE Cascade_skipFailed(_, _, _, _, _, _)
Cascade_skipFailed(steps, i, work, fromVersion, ctx, calls) ==
  IF i > Len(steps) THEN [ok |-> TRUE, value |-> work, errors |-> <<>>, calls |-> calls]
  ELSE IF StepApplies(fromVersion, steps[i].to, ctx.to)
  THEN LET res == RunUpgrader(steps[i].run, work,
                              [ctx EXCEPT !.from = fromVersion, !.to = steps[i].to])
           made == Append(calls, UpgradeCall(steps[i].run, steps[i].to, fromVersion, work))
       IN IF ~res.ok \/ ~Truthy(res.value)
          THEN Cascade_skipFailed(steps, i + 1, work, fromVersion, ctx, made)
          ELSE Cascade_skipFailed(steps, i + 1, res.value, steps[i].to, ctx, made)
  ELSE Cascade_skipFailed(steps, i + 1, work, fromVersion, ctx, calls)

\* The loop over the sorted steps, from step i on
RECURSIVE Cascade(_, _, _, _, _, _)
Cascade(steps, i, work, fromVersion, ctx, calls) ==
  IF i > Len(steps) THEN [ok |-> TRUE, value |-> work, errors |-> <<>>, calls |-> calls]
  ELSE IF StepApplies(fromVersion, steps[i].to, ctx.to)
  THEN LET res == RunUpgrader(steps[i].run, work,
                              [ctx EXCEPT !.from = fromVersion, !.to = steps[i].to])
           made == Append(calls, UpgradeCall(steps[i].run, steps[i].to, fromVersion, work))
       IN IF UpgradeFailed(res)
          THEN [ok |-> FALSE, value |-> Undefined,
                errors |-> UpgradeErrors(res, fromVersion, steps[i].to), calls |-> made]
          ELSE Cascade(steps, i + 1, res.value, steps[i].to, ctx, made)
  ELSE Cascade(steps, i + 1, work, fromVersion, ctx, calls)

\* applySchemaUpgrade(spec, input, ctx); `calls` lists the calls it made
applySchemaUpgrade(spec, in, ctx) ==
  IF spec.kind = "function"
  THEN RunUpgrader(spec.run, in, ctx)
         @@ [calls |-> <<UpgradeCall(spec.run, ctx.to, ctx.from, in)>>]
  ELSE Cascade(SortSteps(spec.steps), 1, in, ctx.from, ctx, <<>>)

----------------------------------------------------------------------------
(* Field descriptors, as the validation engine reads them.                 *)

\* new FieldBuilder(type): required, mutable, no validator, no PII
Field(type) ==
  [t |-> "field", type |-> type, isRequired |-> TRUE, isImmutable |-> FALSE,
   default |-> Undefined, validator |-> "none", enum |-> Undefined,
   shape |-> Undefined, itemType |-> Undefined, refType |-> "",
   pii |-> "none", upgrade |-> "none"]

\* A shape: the entries of Object.entries(shape), in insertion order
Shape(fields) == [t |-> "shape", fields |-> fields]
Entry(key, def) == [key |-> key, def |-> def]

\* A caller-supplied field validator applied to a value
ApplyValidator(name, v) ==
  CASE name = "semver" -> validateSemVer(v)
    [] name = "isA" -> v = Str("A")
    [] OTHER (* "never" *) -> FALSE

\* A caller-supplied field upgrader applied to (value, ctx): {ok, value?, error?}
RunFieldUpgrader(name, v, ctx) ==
  CASE name = "toA" -> [ok |-> TRUE, value |-> Str("A"), error |-> ""]
    [] name = "fail" -> [ok |-> FALSE, value |-> Undefined, error |-> "nope"]
    [] OTHER (* "failQuiet" *) -> [ok |-> FALSE, value |-> Undefined, error |-> ""]

Path(parentKey, key) == IF parentKey # "" THEN parentKey \o "." \o key ELSE key

\* `${path}[${idx}]`, idx counted from 0
IndexPath(path, i) == path \o "[" \o ToString(i - 1) \o "]"

\* validateEnum: the error, or "" for none
validateEnum(parentKey, value, enumValues) ==
  IF enumValues.t # "array" THEN ""
  ELSE IF IsArray(value)
  THEN LET invalid == FilterNotIn(value.a, enumValues.a)
       IN IF Len(invalid) > 0
          THEN "Field " \o parentKey \o " contains invalid enum values: " \o Join(invalid)
          ELSE ""
  ELSE IF ~Includes(enumValues.a, value)
  THEN "Field " \o parentKey \o " must be one of: " \o Join(enumValues.a)
  ELSE ""

\* getEnumValues: def.enum when it is an array of strings and numbers
getEnumValues(def) ==
  IF def.enum.t = "array"
     /\ \A i \in 1..Len(def.enum.a) : def.enum.a[i].t \in {"string", "number"}
  THEN def.enum
  ELSE Undefined

\* errors.push(e) when e is truthy
PushIf(errs, e) == IF e # "" THEN Append(errs, e) ELSE errs

applyDefault(def, current) ==
  IF IsNullish(current) /\ def.default.t # "undefined"
  THEN [value |-> def.default, applied |-> TRUE]
  ELSE [value |-> current, applied |-> FALSE]

isOptional(def) == def.isRequired = FALSE

getValidator(def) == def.validator

getShape(def) == def.shape

\* checkMissingRequired with the test `!isOptional(def)` dropped: the field is
\* skipped when absent, and nothing is reported
checkMissingRequired_silent(parentKey, key, value, def, errs) ==
  [missing |-> IsNullish(value), errors |-> errs]

checkMissingRequired(parentKey, key, value, def, errs) ==
  IF IsNullish(value)
  THEN [missing |-> TRUE,
        errors |-> IF ~isOptional(def)
                   THEN Append(errs, "Missing required field: " \o Path(parentKey, key))
                   ELSE errs]
  ELSE [missing |-> FALSE, errors |-> errs]

\* checkImmutable without the comparison of the value with the stored one
checkImmutable_anyValue(parentKey, key, value, def, exist, errs) ==
  IF def.isImmutable /\ Truthy(exist) /\ Get(exist, key).t # "undefined"
  THEN [immutableViolation |-> TRUE,
        errors |-> Append(errs, "Field is immutable: " \o Path(parentKey, key))]
  ELSE [immutableViolation |-> FALSE, errors |-> errs]

\* value !== existing[key]: objects and arrays are compared by identity, and
\* the caller's `existing` object never is the object under validation
StrictNotEqual(a, b) == a # b \/ a.t \in {"object", "array"}

checkImmutable(parentKey, key, value, def, exist, errs) ==
  IF /\ def.isImmutable
     /\ Truthy(exist)
     /\ Get(exist, key).t # "undefined"
     /\ StrictNotEqual(value, Get(exist, key))
  THEN [immutableViolation |-> TRUE,
        errors |-> Append(errs, "Field is immutable: " \o Path(parentKey, key))]
  ELSE [immutableViolation |-> FALSE, errors |-> errs]

runCustomValidator(parentKey, key, value, def, errs) ==
  IF getValidator(def) # "none" /\ ~IsNullish(value) /\ ~ApplyValidator(getValidator(def), value)
  THEN [invalid |-> TRUE,
        errors |-> Append(errs, "Invalid value for field: " \o Path(parentKey, key))]
  ELSE [invalid |-> FALSE, errors |-> errs]

\* enforcePIIField (the PII module); `warned` tells that logger.warn was called
PIIEmpty(value, def) ==
  def.pii = "high" /\ def.isRequired /\ (IsNullish(value) \/ value = Str(""))

\* enforcePIIField that treats every enforcement other than "none" as strict
enforcePIIField_warnIsStrict(parentKey, key, value, def, enforcement, errs) ==
  IF PIIEmpty(value, def) /\ enforcement # "none"
  THEN [shortCircuit |-> TRUE, warned |-> FALSE,
        errors |-> Append(errs, "High PII field must not be empty: " \o Path(parentKey, key))]
  ELSE [shortCircuit |-> FALSE, warned |-> FALSE, errors |-> errs]

enforcePIIField(parentKey, key, value, def, enforcement, errs) ==
  IF PIIEmpty(value, def) /\ enforcement = "strict"
  THEN [shortCircuit |-> TRUE, warned |-> FALSE,
        errors |-> Append(errs, "High PII field must not be empty: " \o Path(parentKey, key))]
  ELSE [shortCircuit |-> FALSE,
        warned |-> PIIEmpty(value, def) /\ enforcement = "warn",
        errors |-> errs]

----------------------------------------------------------------------------
(* Type-directed validation.  Every operator returns the errors list after *)
(* its pushes and the value after its in-place writes: applying a child's  *)
(* default assigns into the object under validation.                       *)

RECURSIVE validateByType(_, _, _, _, _)
RECURSIVE ChildrenLoop(_, _, _, _, _)
RECURSIVE ItemsLoop(_, _, _, _, _)
RECURSIVE RefChildrenLoop(_, _, _, _, _)
RECURSIVE RefItemsLoop(_, _, _, _, _)

validateStringField(parentKey, key, value, def, errs) ==
  IF TypeOf(value) # "string"
  THEN [errors |-> Append(errs, "Field " \o Path(parentKey, key) \o " must be string"),
        value |-> value]
  ELSE [errors |-> PushIf(errs, validateEnum(Path(parentKey, key), value, getEnumValues(def))),
        value |-> value]

validateNumberField(parentKey, key, value, def, errs) ==
  IF TypeOf(value) # "number"
  THEN [errors |-> Append(errs, "Field " \o Path(parentKey, key) \o " must be number"),
        value |-> value]
  ELSE [errors |-> errs, value |-> value]

validateBooleanField(parentKey, key, value, def, errs) ==
  IF TypeOf(value) # "boolean"
  THEN [errors |-> Append(errs, "Field " \o Path(parentKey, key) \o " must be boolean"),
        value |-> value]
  ELSE [errors |-> errs, value |-> value]

\* The loop over the entries of a child shape, from entry i on; the body of
\* validateObjectChildren and of the per-item loop of validateArrayOfObjects
ChildrenLoop(parentKey, obj, fields, i, errs) ==
  IF i > Len(fields) THEN [errors |-> errs, value |-> obj]
  ELSE LET childKey == fields[i].key
           childDef == fields[i].def
           d == applyDefault(childDef, Get(obj, childKey))
           obj1 == IF d.applied THEN Put(obj, childKey, d.value) ELSE obj
           m == checkMissingRequired(parentKey, childKey, d.value, childDef, errs)
           c == runCustomValidator(parentKey, childKey, d.value, childDef, m.errors)
           r == validateByType(parentKey, childKey, d.value, childDef, c.errors)
       IN IF m.missing THEN ChildrenLoop(parentKey, obj1, fields, i + 1, m.errors)
          ELSE IF c.invalid THEN ChildrenLoop(parentKey, obj1, fields, i + 1, c.errors)
          ELSE ChildrenLoop(parentKey, Put(obj1, childKey, r.value), fields, i + 1, r.errors)

validateObjectChildren(parentKey, obj, shape, errs) ==
  ChildrenLoop(parentKey, obj, shape.fields, 1, errs)

validateObjectField(parentKey, key, value, def, errs) ==
  IF ~IsObject(value)
  THEN [errors |-> Append(errs, "Field " \o Path(parentKey, key) \o " must be object"),
        value |-> value]
  ELSE IF getShape(def).t = "shape"
  THEN validateObjectChildren(Path(parentKey, key), value, getShape(def), errs)
  ELSE [errors |-> errs, value |-> value]

\* arr.forEach((v, idx) => { if (!validator(v)) errors.push(...) }), from element i on
RECURSIVE ElementValidatorLoop(_, _, _, _, _)
ElementValidatorLoop(path, a, validator, i, errs) ==
  IF i > Len(a) THEN errs
  ELSE ElementValidatorLoop(path, a, validator, i + 1,
         IF ~ApplyValidator(validator, a[i])
         THEN Append(errs, "Invalid value for field: " \o IndexPath(path, i))
         ELSE errs)

ElementValidators(path, a, itemDef, errs) ==
  IF getValidator(itemDef) # "none"
  THEN ElementValidatorLoop(path, a, getValidator(itemDef), 1, errs)
  ELSE errs

validateArrayOfStrings(parentKey, key, arr, itemDef, errs) ==
  LET path == Path(parentKey, key) IN
  IF ~\A i \in 1..Len(arr.a) : TypeOf(arr.a[i]) = "string"
  THEN [errors |-> Append(errs, "Field " \o path \o " must be string[]"), value |-> arr]
  ELSE [errors |-> ElementValidators(path, arr.a, itemDef,
                     PushIf(errs, validateEnum(path, arr, getEnumValues(itemDef)))),
        value |-> arr]

validateArrayOfNumbers(parentKey, key, arr, itemDef, errs) ==
  LET path == Path(parentKey, key)
      e1 == IF ~\A i \in 1..Len(arr.a) : TypeOf(arr.a[i]) = "number"
            THEN Append(errs, "Field " \o path \o " must be number[]")
            ELSE errs
  IN [errors |-> ElementValidators(path, arr.a, itemDef,
                   PushIf(e1, validateEnum(path, arr, getEnumValues(itemDef)))),
      value |-> arr]

validateArrayOfBooleans(parentKey, key, arr, itemDef, errs) ==
  LET path == Path(parentKey, key)
      e1 == IF ~\A i \in 1..Len(arr.a) : TypeOf(arr.a[i]) = "boolean"
            THEN Append(errs, "Field " \o path \o " must be boolean[]")
            ELSE errs
  IN [errors |-> ElementValidators(path, arr.a, itemDef, e1), value |-> arr]

\* arr.forEach((item, idx) => ...) of validateArrayOfObjects, from item i on
ItemsLoop(path, a, fields, i, errs) ==
  IF i > Len(a) THEN [errors |-> errs, value |-> Arr(a)]
  ELSE LET r == ChildrenLoop(IndexPath(path, i), a[i], fields, 1, errs)
       IN ItemsLoop(path, [a EXCEPT ![i] = r.value], fields, i + 1, r.errors)

validateArrayOfObjects(parentKey, key, arr, itemDef, errs) ==
  LET path == Path(parentKey, key) IN
  IF ~\A i \in 1..Len(arr.a) : IsObject(arr.a[i])
  THEN [errors |-> Append(errs, "Field " \o path \o " must be object[]"), value |-> arr]
  ELSE IF getShape(itemDef).t # "shape" THEN [errors |-> errs, value |-> arr]
  ELSE ItemsLoop(path, arr.a, getShape(itemDef).fields, 1, errs)

\* The first forEach of the ref branch of validateArrayField, from element i on
RECURSIVE RefShapeErrors(_, _, _, _, _)
RefShapeErrors(path, a, expectedType, i, errs) ==
  IF i > Len(a) THEN errs
  ELSE RefShapeErrors(path, a, expectedType, i + 1,
         IF \/ ~IsObject(a[i])
            \/ TypeOf(Get(a[i], "type")) # "string"
            \/ TypeOf(Get(a[i], "id")) # "string"
            \/ (expectedType # "" /\ Get(a[i], "type") # Str(expectedType))
         THEN Append(errs, "Field " \o IndexPath(path, i)
                           \o " must be a reference object with type: " \o expectedType)
         ELSE errs)

\* The loop over the entries of a ref item's shape, from entry i on
RefChildrenLoop(itemPath, ref, fields, i, errs) ==
  IF i > Len(fields) THEN [errors |-> errs, value |-> ref]
  ELSE LET childKey == fields[i].key
           childDef == fields[i].def
           childPath == itemPath \o "." \o childKey
           d == applyDefault(childDef, Get(ref, childKey))
           ref1 == IF d.applied THEN Put(ref, childKey, d.value) ELSE ref
           r == validateByType(itemPath, childKey, d.value, childDef, errs)
       IN IF IsNullish(d.value) /\ ~isOptional(childDef)
          THEN RefChildrenLoop(itemPath, ref1, fields, i + 1,
                               Append(errs, "Missing required field: " \o childPath))
          ELSE IF /\ getValidator(childDef) # "none"
                  /\ ~IsNullish(d.value)
                  /\ ~ApplyValidator(getValidator(childDef), d.value)
          THEN RefChildrenLoop(itemPath, ref1, fields, i + 1,
                               Append(errs, "Invalid value for field: " \o childPath))
          ELSE RefChildrenLoop(itemPath,
                               IF HasKey(ref1, childKey) THEN Put(ref1, childKey, r.value)
                               ELSE ref1,
                               fields, i + 1, r.errors)

\* The second forEach of the ref branch (items that are objects), from element i on
RefItemsLoop(path, a, fields, i, errs) ==
  IF i > Len(a) THEN [errors |-> errs, value |-> Arr(a)]
  ELSE IF IsObject(a[i])
  THEN LET r == RefChildrenLoop(IndexPath(path, i), a[i], fields, 1, errs)
       IN RefItemsLoop(path, [a EXCEPT ![i] = r.value], fields, i + 1, r.errors)
  ELSE RefItemsLoop(path, a, fields, i + 1, errs)

validateArrayOfRefs(parentKey, key, arr, itemDef, errs) ==
  LET path == Path(parentKey, key)
      e1 == RefShapeErrors(path, arr.a, itemDef.refType, 1, errs)
  IN IF getShape(itemDef).t = "shape"
     THEN RefItemsLoop(path, arr.a, getShape(itemDef).fields, 1, e1)
     ELSE [errors |-> e1, value |-> arr]

validateArrayField(parentKey, key, value, def, errs) ==
  LET itemType == IF def.itemType.t = "field" THEN def.itemType.type ELSE "undefined" IN
  IF ~IsArray(value)
  THEN [errors |-> Append(errs, "Field " \o key \o " must be an array"), value |-> value]
  ELSE CASE itemType = "string" -> validateArrayOfStrings(parentKey, key, value, def.itemType, errs)
         [] itemType = "number" -> validateArrayOfNumbers(parentKey, key, value, def.itemType, errs)
         [] itemType = "boolean" -> validateArrayOfBooleans(parentKey, key, value, def.itemType, errs)
         [] itemType = "object" -> validateArrayOfObjects(parentKey, key, value, def.itemType, errs)
         [] itemType = "ref" -> validateArrayOfRefs(parentKey, key, value, def.itemType, errs)
         [] OTHER -> [errors |-> Append(errs, "Field " \o Path(parentKey, key)
                                              \o " has unsupported array item type"),
                      value |-> value]

\* validateRefField without the comparison of value.type with def.refType
validateRefField_anyType(parentKey, key, value, def, errs) ==
  IF \/ TypeOf(value) # "object"
     \/ value.t = "null"
     \/ TypeOf(Get(value, "type")) # "string"
     \/ TypeOf(Get(value, "id")) # "string"
  THEN [errors |-> Append(errs, "Field " \o Path(parentKey, key)
                                \o " must be { type: string; id: string }"),
        value |-> value]
  ELSE [errors |-> errs, value |-> value]

validateRefField(parentKey, key, value, def, errs) ==
  LET path == Path(parentKey, key) IN
  IF \/ TypeOf(value) # "object"
     \/ value.t = "null"
     \/ TypeOf(Get(value, "type")) # "string"
     \/ TypeOf(Get(value, "id")) # "string"
  THEN [errors |-> Append(errs, "Field " \o path \o " must be { type: string; id: string }"),
        value |-> value]
  ELSE IF def.refType # "" /\ Get(value, "type") # Str(def.refType)
  THEN [errors |-> Append(errs, "Field " \o path \o " must reference type: " \o def.refType
                                \o " (got " \o ToStr(Get(value, "type")) \o ")"),
        value |-> value]
  ELSE [errors |-> errs, value |-> value]

validateByType(parentKey, key, value, def, errs) ==
  CASE def.type = "string" -> validateStringField(parentKey, key, value, def, errs)
    [] def.type = "number" -> validateNumberField(parentKey, key, value, def, errs)
    [] def.type = "boolean" -> validateBooleanField(parentKey, key, value, def, errs)
    [] def.type = "object" -> validateObjectField(parentKey, key, value, def, errs)
    [] def.type = "array" -> validateArrayField(parentKey, key, value, def, errs)
    [] def.type = "ref" -> validateRefField(parentKey, key, value, def, errs)
    [] OTHER -> [errors |-> Append(errs, "Unknown type for field " \o Path(parentKey, key)
                                         \o ": " \o def.type),
                 value |-> value]

----------------------------------------------------------------------------
(* createSchema and Schema.validate.                                       *)

\* systemFields: type and version, ahead of the caller's fields
systemFields ==
  << Entry("type", [Field("string") EXCEPT !.isImmutable = TRUE]),
     Entry("version", [Field("string") EXCEPT !.isImmutable = TRUE, !.validator = "semver"]) >>

\* createSchema(_shape, entityType, options)
createSchema(shape, entityType, options) ==
  [shape |-> systemFields \o shape,
   entityType |-> entityType,
   version |-> IF options.version # "" THEN options.version ELSE "1.0.0",
   piiEnforcement |-> options.piiEnforcement,
   schemaUpgrade |-> options.schemaUpgrade,
   schemaValidator |-> options.schemaValidator]

\* A caller-supplied schemaValidator applied to the assembled result
ApplySchemaValidator(name, value) == name = "accept"

\* The record of one call made while a field is processed
Event(fn, key, arg) == [fn |-> fn, key |-> key, arg |-> arg]

\* working.type == null ? entityType : working.type, and the same for version
WithSystemDefaults(sch, in) ==
  LET w1 == IF IsNullish(Get(in, "type")) THEN Put(in, "type", Str(sch.entityType)) ELSE in
  IN IF IsNullish(Get(w1, "version")) THEN Put(w1, "version", Str(sch.version)) ELSE w1

\* String(working.version ?? "0.0.0")
VersionOf(obj) ==
  IF IsNullish(Get(obj, "version")) THEN "0.0.0" ELSE ToStr(Get(obj, "version"))

\* schemaUpgrade && cmpSemver(fromVersion, toVersion) < 0
NeedsSchemaUpgrade(sch, fromVersion) ==
  sch.schemaUpgrade.kind # "none" /\ cmpSemver(fromVersion, sch.version) < 0

UpgradeCtx(sch, fromVersion) ==
  [from |-> fromVersion, to |-> sch.version, entityType |-> sch.entityType]

\* { ...value, type: entityType, version: toVersion } with the two stamps left out
Restamp_unstamped(sch, value) == value

\* The re-stamp of the type alone: the version stays as the upgrade left it
Restamp_typeOnly(sch, value) ==
  Put(IF IsObject(value) THEN value ELSE EmptyObj, "type", Str(sch.entityType))

\* The working copy after a successful schema-level upgrade: its keys are
\* deleted, the upgraded value is assigned into it (Object.assign copies
\* nothing from a value that is no object), type and version are re-stamped
Restamp(sch, value) ==
  Put(Put(IF IsObject(value) THEN value ELSE EmptyObj, "type", Str(sch.entityType)),
      "version", Str(sch.version))

\* validateField(val) of the field loop: custom validator, then the type check
validateField(key, def, val) ==
  LET c == runCustomValidator("", key, val, def, <<>>)
      r == validateByType("", key, val, def, c.errors)
      called == IF getValidator(def) # "none" /\ ~IsNullish(val)
                THEN <<Event("validator", key, val)>> ELSE <<>>
  IN IF c.invalid
     THEN [errors |-> c.errors, value |-> val, events |-> called]
     ELSE [errors |-> r.errors, value |-> r.value,
           events |-> Append(called, Event("typeCheck", key, val))]

\* The object the working copy holds under `key` is the very object the
\* caller's input holds there: the working copy is a shallow copy
SharedWithInput(in, key, value) ==
  value.t \in {"object", "array"} /\ HasKey(in, key) /\ in.o[key] = value

\* The upgrade condition without the comparison of the versions
AttemptsFieldUpgrade_anyVersion(sch, def, fieldErrors, entityFrom) ==
  Len(fieldErrors) > 0 /\ def.upgrade # "none"

\* fieldErrors.length > 0 && hasUpgrader && cmpSemver(entityFrom, entityTo) < 0
AttemptsFieldUpgrade(sch, def, fieldErrors, entityFrom) ==
  Len(fieldErrors) > 0 /\ def.upgrade # "none" /\ cmpSemver(entityFrom, sch.version) < 0

\* The default message, whatever error the upgrader gave
FieldUpgradeError_default(res, key, entityFrom, entityTo) ==
  "Failed to upgrade field " \o key \o " from v" \o entityFrom \o " to v" \o entityTo

\* res?.error || `Failed to upgrade field ...`
FieldUpgradeError(res, key, entityFrom, entityTo) ==
  IF res.error # "" THEN res.error
  ELSE "Failed to upgrade field " \o key \o " from v" \o entityFrom \o " to v" \o entityTo

\* What one iteration of the field loop leaves behind: how it ended, the
\* errors, the working copy, the result, the caller's input, the calls made
Outcome(short, errs, work, res, in, events) ==
  [short |-> short, errors |-> errs, working |-> work, result |-> res,
   input |-> in, events |-> events]

\* An end of the iteration that stores the value of a valid field only
StoreField_validOnly(errs, work, res, in, key, fieldValue, fieldErrors, events) ==
  [short |-> "none", errors |-> errs \o fieldErrors, working |-> work,
   result |-> IF fieldErrors = <<>> THEN Put(res, key, fieldValue) ELSE res,
   input |-> in, events |-> events]

\* The end of an iteration: result[key] = fieldValue; errors.push(...fieldErrors)
StoreField(errs, work, res, in, key, fieldValue, fieldErrors, events) ==
  Outcome("none", errs \o fieldErrors, work, Put(res, key, fieldValue), in, events)

\* The upgrade attempt of an iteration whose first pass gave `first`
UpgradeRetry(sch, in, work, res, errs, key, def, first, entityFrom, events) ==
  LET up == RunFieldUpgrader(def.upgrade, first.value,
                             [entityFrom |-> entityFrom, entityTo |-> sch.version,
                              fieldName |-> key])
      second == validateField(key, def, up.value)
      called == Append(events, Event("fieldUpgrade", key, first.value))
  IN IF up.ok
     THEN StoreField(errs, work, res, in, key, second.value, second.errors,
                     called \o second.events)
     ELSE StoreField(errs, work, res, in, key, first.value,
                     Append(first.errors, FieldUpgradeError(up, key, entityFrom, sch.version)),
                     called)

\* An iteration from the first validation pass on
FirstPass(sch, in, work, res, errs, key, def, value, first, events) ==
  IF AttemptsFieldUpgrade(sch, def, first.errors, VersionOf(work))
  THEN UpgradeRetry(sch,
                    IF SharedWithInput(in, key, value) THEN Put(in, key, first.value) ELSE in,
                    Put(work, key, first.value), res, errs, key, def, first,
                    VersionOf(work), events \o first.events)
  ELSE StoreField(errs,
                  Put(work, key, first.value), res,
                  IF SharedWithInput(in, key, value) THEN Put(in, key, first.value) ELSE in,
                  key, first.value, first.errors, events \o first.events)

\* An iteration from the required check on: required, immutable, PII
Checks(sch, in, work, exist, res, errs, key, def, value, events) ==
  IF checkMissingRequired("", key, value, def, errs).missing
  THEN Outcome("missing", checkMissingRequired("", key, value, def, errs).errors,
               work, res, in, events)
  ELSE IF checkImmutable("", key, value, def, exist, errs).immutableViolation
  THEN Outcome("immutable", checkImmutable("", key, value, def, exist, errs).errors,
               work, res, in, events)
  ELSE IF enforcePIIField("", key, value, def, sch.piiEnforcement, errs).shortCircuit
  THEN Outcome("pii", enforcePIIField("", key, value, def, sch.piiEnforcement, errs).errors,
               work, res, in, events)
  ELSE FirstPass(sch, in, work, res, errs, key, def, value,
                 validateField(key, def, value), events)

\* An iteration after its default was looked up
Defaulted(sch, in, work, exist, res, errs, key, def, d) ==
  Checks(sch, in, IF d.applied THEN Put(work, key, d.value) ELSE work,
         exist, res, errs, key, def, d.value,
         <<Event("visit", key, Get(work, key))>>
           \o (IF d.applied THEN <<Event("default", key, d.value)>> ELSE <<>>))

\* One iteration of the field loop of validate, for the entry (key, def)
FieldStep(sch, in, work, exist, res, errs, key, def) ==
  Defaulted(sch, in, work, exist, res, errs, key, def, applyDefault(def, Get(work, key)))

\* The value validate returns, without the value
Returned_noValue(valid, value, errs) == [valid |-> valid, value |-> Undefined, errors |-> errs]

\* The value validate returns
Returned(valid, value, errs) == [valid |-> valid, value |-> value, errors |-> errs]

\* `break` in place of `continue`: a short-circuit ends the loop
NextIndex_break(i, short, n) == IF short # "none" THEN n + 1 ELSE i + 1

\* `continue`: the loop goes on with the next entry of the shape, whatever
\* the outcome of the entry just processed
NextIndex(i, short, n) == i + 1

\* validate(input, existing), up to the field loop: the input check, the
\* working copy, the schema-level upgrade
Validate_Begin ==
  /\ pc = "call"
  /\ op = "validate"
  /\ LET w == WithSystemDefaults(schema, input)
         fromVersion == VersionOf(w)
         u == applySchemaUpgrade(schema.schemaUpgrade, w, UpgradeCtx(schema, fromVersion))
     IN IF TypeOf(input) # "object" \/ input.t = "null"
        THEN /\ ret' = Returned(FALSE, Undefined, <<"Input must be an object">>)
             /\ pc' = "done"
             /\ UNCHANGED <<working, trace, errors>>
        ELSE IF ~NeedsSchemaUpgrade(schema, fromVersion)
        THEN /\ working' = w
             /\ pc' = "loop"
             /\ UNCHANGED <<ret, trace, errors>>
        ELSE IF UpgradeFailed(u)
        THEN /\ errors' = errors \o UpgradeErrors(u, fromVersion, schema.version)
             /\ ret' = Returned(FALSE, Undefined, errors')
             /\ pc' = "done"
             /\ trace' = trace \o u.calls
             /\ UNCHANGED working
        ELSE /\ working' = Restamp(schema, u.value)
             /\ pc' = "loop"
             /\ trace' = trace \o u.calls
             /\ UNCHANGED <<ret, errors>>
  /\ UNCHANGED <<schema, op, input, input0, existing, result, idx>>
  /\ UNCHANGED compositionVars

\* One iteration of `for (const key in schema._shape)`
Validate_Field ==
  /\ pc = "loop"
  /\ idx <= Len(schema.shape)
  /\ LET step == FieldStep(schema, input, working, existing, result, errors,
                           schema.shape[idx].key, schema.shape[idx].def)
     IN /\ errors' = step.errors
        /\ working' = step.working
        /\ result' = step.result
        /\ input' = step.input
        /\ trace' = trace \o step.events
        /\ idx' = NextIndex(idx, step.short, Len(schema.shape))
  /\ UNCHANGED <<schema, op, input0, existing, pc, ret>>
  /\ UNCHANGED compositionVars

\* After the loop: the schema-level validator and the return
Validate_Finish ==
  /\ pc = "loop"
  /\ idx > Len(schema.shape)
  /\ LET errs == IF /\ Len(errors) = 0
                    /\ schema.schemaValidator # "none"
                    /\ ~ApplySchemaValidator(schema.schemaValidator, result)
                 THEN Append(errors, "Schema-level validation failed.")
                 ELSE errors
     IN /\ errors' = errs
        /\ ret' = Returned(Len(errs) = 0, result, errs)
  /\ pc' = "done"
  /\ UNCHANGED <<schema, op, input, input0, existing, working, result, idx, trace>>
  /\ UNCHANGED compositionVars

----------------------------------------------------------------------------
(* Schema.upgrade *)

\* The value upgrade returns
Upgraded(ok, value, errs) == [ok |-> ok, value |-> value, errors |-> errs]

\* upgrade(input, log)
Upgrade ==
  /\ pc = "call"
  /\ op = "upgrade"
  /\ LET fromVersion == VersionOf(input)
         u == applySchemaUpgrade(schema.schemaUpgrade, input, UpgradeCtx(schema, fromVersion))
     IN IF schema.schemaUpgrade.kind = "none" \/ cmpSemver(fromVersion, schema.version) >= 0
        THEN /\ ret' = Upgraded(TRUE, Restamp(schema, input), <<>>)
             /\ UNCHANGED trace
        ELSE /\ trace' = trace \o u.calls
             /\ ret' = IF u.ok /\ Truthy(u.value)
                       THEN Upgraded(TRUE, Restamp(schema, u.value), <<>>)
                       ELSE Upgraded(FALSE, Undefined,
                                     UpgradeErrors(u, fromVersion, schema.version))
  /\ pc' = "done"
  /\ UNCHANGED <<schema, op, input, input0, existing, working, result, errors, idx>>
  /\ UNCHANGED compositionVars

----------------------------------------------------------------------------
(* Schema.validateComposition.  The walk is asynchronous: every call of    *)
(* resolveEntity and every recursive call is awaited, so the calls form a  *)
(* stack.  A frame of the stack is one call of validateComposition: the    *)
(* shape of its schema, its entity, its options object, the                *)
(* validatorContext it works with, and its position in the field loop.     *)

\* (def as any).autoValidate !== false
autoValidate(def) == ~("autoValidate" \in DOMAIN def /\ def.autoValidate = FALSE)

\* (def as any).refPolicy ?? "eager"
refPolicy(def) == IF "refPolicy" \in DOMAIN def THEN def.refPolicy ELSE "eager"

\* `${entity.type}:${entity.id}`
entityKey(entity) == ToStr(Get(entity, "type")) \o ":" \o ToStr(Get(entity, "id"))

\* The caller's resolveEntity(refType, id): a lookup among the entities
\* that exist, null when there is none
resolveEntity(refType, id) ==
  LET k == refType \o ":" \o ToStr(id)
  IN IF k \in DOMAIN entities THEN entities[k] ELSE Null

\* getSchemaForType(type): the registered schema, or undefined
getSchemaForType(type) ==
  IF type \in DOMAIN globalSchemaRegistry THEN globalSchemaRegistry[type] ELSE Undefined

\* options.onlyFields && !options.onlyFields.includes(key)
NotInOnlyFields(opts, key) ==
  opts.onlyFields.t # "undefined" /\ key \notin opts.onlyFields.keys

\* options.maxDepth > 0, which is false when options.maxDepth is undefined
DepthLeft(opts) == opts.maxDepth.t = "number" /\ opts.maxDepth.n > 0

\* { ...options } passed on with maxDepth as it was
Deeper_same(opts) == opts

\* { ...options, maxDepth: options.maxDepth - 1 }
Deeper(opts) == [opts EXCEPT !.maxDepth = Num(opts.maxDepth.n - 1)]

Frame(shape, entity, opts, context) ==
  [shape |-> shape, entity |-> entity, options |-> opts, context |-> context,
   field |-> 1, item |-> 1]

\* What a step of the walk leaves behind
Walk(stk, ctxs, events, thrown) ==
  [stack |-> stk, contexts |-> ctxs, events |-> events, thrown |-> thrown]

\* The head of a call of validateComposition(entity, options): the
\* validatorContext of the options or a new one, the visited check, the mark
Enter(shape, entity, opts, stk, ctxs, events) ==
  LET fresh == opts.validatorContext.t = "undefined"
      ctxs1 == IF fresh THEN Append(ctxs, {}) ELSE ctxs
      c == IF fresh THEN Len(ctxs1) ELSE opts.validatorContext.id
      k == entityKey(entity)
  IN IF k \in ctxs1[c]
     THEN Walk(stk, ctxs1, Append(events, Event("skipVisited", k, entity)), "")
     ELSE Walk(Append(stk, Frame(shape, entity, opts, c)),
               [ctxs1 EXCEPT ![c] = @ \cup {k}],
               Append(events, Event("walk", k, entity)), "")

\* ref.type && ref.type !== refType
TypeMismatch_never(ref, refType) == FALSE

TypeMismatch(ref, refType) ==
  Truthy(Get(ref, "type")) /\ Get(ref, "type") # Str(refType)

\* !target
Broken_never(target) == FALSE

Broken(target) == ~Truthy(target)

\* The messages of the errors thrown for a reference
MismatchError(key, refType, ref) ==
  "Reference type mismatch for field " \o key \o ": expected " \o refType
    \o ", got " \o ToStr(Get(ref, "type"))

BrokenError(key, refType, ref) ==
  "Broken reference: " \o refType \o " " \o ToStr(Get(ref, "id")) \o " in field " \o key

\* maxDepth = 5, the default of the destructured local (which the walk does not read)
DeclaredMaxDepth == 5

\* The record of one call of resolveEntity: the field and the reference it
\* is made for, its arguments, its answer, and how deep the caller is
Resolution(key, def, ref, refType, target, hops) ==
  [fn |-> "resolveEntity", key |-> key, def |-> def, arg |-> ref,
   refType |-> refType, id |-> Get(ref, "id"), target |-> target, hops |-> hops]

\* One reference of a field (the ref itself, or one element of the array):
\* the type check, the resolution, the recursive call
Reference(key, def, refType, ref, opts, stk, ctxs, events) ==
  LET target == resolveEntity(refType, Get(ref, "id"))
      called == Append(events, Resolution(key, def, ref, refType, target, Len(stk) - 1))
      targetSchema == getSchemaForType(refType)
  IN IF TypeMismatch(ref, refType)
     THEN Walk(stk, ctxs, events, MismatchError(key, refType, ref))
     ELSE IF Broken(target)
     THEN Walk(stk, ctxs, called, BrokenError(key, refType, ref))
     ELSE IF /\ autoValidate(def) /\ refPolicy(def) = "eager"
             /\ DepthLeft(opts) /\ targetSchema # Undefined
     THEN Enter(targetSchema.shape, target, Deeper(opts), stk, ctxs, called)
     ELSE Walk(stk, ctxs, called, "")

\* The innermost call, moved on to its next field / to its next element
NextField(stk) == [stk EXCEPT ![Len(stk)].field = @ + 1, ![Len(stk)].item = 1]
NextItem(stk) == [stk EXCEPT ![Len(stk)].item = @ + 1]

\* One step of the loop over Object.entries(schema._shape) of the innermost
\* call: a field that is skipped, a ref field, or one element of a ref array
FieldOfWalk(stk, ctxs) ==
  LET top == stk[Len(stk)]
      key == top.shape[top.field].key
      def == top.shape[top.field].def
      value == Get(top.entity, key)
  IN IF NotInOnlyFields(top.options, key) \/ ~Truthy(value)
     THEN Walk(NextField(stk), ctxs, <<>>, "")
     ELSE IF def.type = "ref"
     THEN IF def.refType = ""
          THEN Walk(stk, ctxs, <<>>, "Missing refType for reference field " \o key)
          ELSE Reference(key, def, def.refType, value, top.options, NextField(stk), ctxs, <<>>)
     ELSE IF def.type = "array" /\ def.itemType.t = "field" /\ def.itemType.type = "ref"
     THEN IF def.itemType.refType = ""
          THEN Walk(stk, ctxs, <<>>, "Missing refType for reference array field " \o key)
          ELSE IF top.item > Len(value.a)
          THEN Walk(NextField(stk), ctxs, <<>>, "")
          ELSE Reference(key, def, def.itemType.refType, value.a[top.item], top.options,
                         NextItem(stk), ctxs, <<>>)
     ELSE Walk(NextField(stk), ctxs, <<>>, "")

\* What the promise of the top-level call settles to
Resolved == [t |-> "resolved"]
Rejected(error) == [t |-> "rejected", error |-> error]

\* schema.validateComposition(entity, options): the caller's call
Compose_Call ==
  /\ pc = "call"
  /\ op = "validateComposition"
  /\ LET w == Enter(schema.shape, input, callOptions, <<>>, contexts, <<>>)
     IN /\ stack' = w.stack
        /\ contexts' = w.contexts
        /\ trace' = trace \o w.events
  /\ pc' = "walk"
  /\ UNCHANGED <<schema, op, input, input0, existing, working, result, errors, idx, ret,
                 globalSchemaRegistry, entities, callOptions>>

\* The innermost call handles its next field or array element; a throw
\* rejects every awaiting call, and so the top-level one
Compose_Step ==
  /\ pc = "walk"
  /\ stack # <<>>
  /\ stack[Len(stack)].field <= Len(stack[Len(stack)].shape)
  /\ LET w == FieldOfWalk(stack, contexts)
     IN /\ trace' = trace \o w.events
        /\ contexts' = w.contexts
        /\ IF w.thrown # ""
           THEN /\ stack' = <<>>
                /\ ret' = Rejected(w.thrown)
                /\ pc' = "done"
           ELSE /\ stack' = w.stack
                /\ UNCHANGED <<ret, pc>>
  /\ UNCHANGED <<schema, op, input, input0, existing, working, result, errors, idx,
                 globalSchemaRegistry, entities, callOptions>>

\* The innermost call has handled all its fields and returns to the call
\* awaiting it; the top-level call resolves when none is left
Compose_Return ==
  /\ pc = "walk"
  /\ IF stack = <<>>
     THEN /\ ret' = Resolved
          /\ pc' = "done"
          /\ UNCHANGED stack
     ELSE /\ stack[Len(stack)].field > Len(stack[Len(stack)].shape)
          /\ stack' = SubSeq(stack, 1, Len(stack) - 1)
          /\ UNCHANGED <<ret, pc>>
  /\ UNCHANGED <<schema, op, input, input0, existing, working, result, errors, idx, trace,
                 globalSchemaRegistry, entities, callOptions, contexts>>

----------------------------------------------------------------------------
(* Schema.prepareForStorage: the storage-time PII transforms of            *)
(* src/unnamed/part_004.                                                   *)

\* def._pii?.action
piiAction(def) == IF "piiAction" \in DOMAIN def THEN def.piiAction ELSE "none"

\* The caller's encryptFn and hashFn, as the tests define them
encryptFn(value) == Str("enc(" \o ToStr(value) \o ")")
hashFn(value) == Str("hash(" \o ToStr(value) \o ")")

\* { ...value }: the own properties of an object, none for null and undefined
Spread(value) == IF IsObject(value) THEN value ELSE EmptyObj

RECURSIVE build(_, _, _, _), buildChildren(_, _, _), buildItem(_, _, _)

\* for (const [childKey, childDef] of Object.entries(shape))
\*   build(childDef, value?.[childKey], childKey, out)
buildChildren(fields, value, out) ==
  IF Len(fields) = 0 THEN out
  ELSE buildChildren(Tail(fields), value,
                     build(fields[1].def, Get(value, fields[1].key), fields[1].key, out))

\* The callback of value.map: the item built into an object of its own under
\* the name of the array, unwrapped when it is there under that name
buildItem(itemType, item, key) ==
  LET obj == build(itemType, item, key, EmptyObj)
  IN IF HasKey(obj, key) THEN Get(obj, key)
     ELSE IF DOMAIN obj.o # {} THEN obj ELSE item

\* build(def, value, key, out): out after the call
build(def, value, key, out) ==
  LET isMissing == IsNullish(value)
  IN IF piiAction(def) = "encrypt"
     THEN IF ~isMissing THEN Put(out, key \o "Encrypted", encryptFn(value)) ELSE out
     ELSE IF piiAction(def) = "hash"
     THEN IF ~isMissing THEN Put(out, key \o "Hash", hashFn(value)) ELSE out
     ELSE IF piiAction(def) = "clear"
     THEN IF ~isMissing THEN Put(out, key, Null) ELSE out
     ELSE IF def.type = "object" /\ def.shape.t = "shape"
     THEN Put(out, key, buildChildren(def.shape.fields, value, EmptyObj))
     ELSE IF def.type = "array" /\ def.itemType.t = "field" /\ IsArray(value)
     THEN Put(out, key, Arr([i \in 1..Len(value.a) |-> buildItem(def.itemType, value.a[i], key)]))
     ELSE IF def.type = "ref"
     THEN Put(out, key,
              IF def.shape.t = "shape" /\ Truthy(value)
              THEN buildChildren(def.shape.fields, value, Spread(value))
              ELSE Spread(value))
     ELSE Put(out, key, value)

\* prepareForStorage(shape, input, encryptFn, hashFn)
prepareForStorage(shape, in) == buildChildren(shape, in, EmptyObj)

\* schema.prepareForStorage(input, encryptFn, hashFn)
PrepareForStorage ==
  /\ pc = "call"
  /\ op = "prepareForStorage"
  /\ ret' = prepareForStorage(schema.shape, input)
  /\ pc' = "done"
  /\ UNCHANGED <<schema, op, input, input0, existing, working, result, errors, idx, trace>>
  /\ UNCHANGED compositionVars

----------------------------------------------------------------------------
(* Schema.prepareForRead: the read-time PII transforms of                  *)
(* src/unnamed/part_004.                                                   *)

\* a ?? b
Coalesce(a, b) == IF IsNullish(a) THEN b ELSE a

\* The values the caller encrypts, on which encryptFn is one-to-one
Plaintexts == {Str("x"), Str("y"), Str("")}

\* The caller's decryptFn, the inverse of encryptFn on what it encrypted
decryptFn(enc) ==
  IF \E v \in Plaintexts : encryptFn(v) = enc
  THEN CHOOSE v \in Plaintexts : encryptFn(v) = enc
  ELSE enc

RECURSIVE readValue(_, _, _, _), readChildren(_, _, _), readRefChildren(_, _)

\* for (const [childKey, childDef] of Object.entries(def._shape))
\*   obj[childKey] = readValue(childDef, childKey, source)
readChildren(fields, source, obj) ==
  IF Len(fields) = 0 THEN obj
  ELSE readChildren(Tail(fields), source,
                    Put(obj, fields[1].key, readValue(fields[1].def, fields[1].key, source, "")))

\* for (const [childKey, childDef] of Object.entries(refShape))
\*   ref[childKey] = readValue(childDef, childKey, ref)
readRefChildren(fields, ref) ==
  IF Len(fields) = 0 THEN ref
  ELSE readRefChildren(Tail(fields),
                       Put(ref, fields[1].key, readValue(fields[1].def, fields[1].key, ref, "")))

\* readValue(def, key, container, ctx); parentKey is ctx.parentKey, "" when
\* the caller gives none
readValue(def, key, container, parentKey) ==
  LET fallback == IF parentKey = "" THEN key ELSE parentKey
      enc == Coalesce(Get(container, key \o "Encrypted"), Get(container, fallback \o "Encrypted"))
      h == Coalesce(Get(container, key \o "Hash"), Get(container, fallback \o "Hash"))
      arr == Get(container, key)
  IN IF piiAction(def) = "encrypt"
     THEN IF enc.t = "undefined" THEN Undefined ELSE decryptFn(enc)
     ELSE IF piiAction(def) = "hash"
     THEN h
     ELSE IF piiAction(def) = "clear"
     THEN IF HasKey(container, key) THEN Null ELSE Undefined
     ELSE IF def.type = "object" /\ def.shape.t = "shape"
     THEN readChildren(def.shape.fields,
                       IF Truthy(container) /\ HasKey(container, key)
                       THEN Get(container, key) ELSE Coalesce(container, EmptyObj),
                       EmptyObj)
     ELSE IF def.type = "array" /\ def.itemType.t = "field"
     THEN IF ~IsArray(arr) THEN arr
          ELSE Arr([i \in 1..Len(arr.a) |-> readValue(def.itemType, key, arr.a[i], key)])
     ELSE IF def.type = "ref"
     THEN IF def.shape.t = "shape"
          THEN readRefChildren(def.shape.fields, Spread(Coalesce(Get(container, key), EmptyObj)))
          ELSE Spread(Coalesce(Get(container, key), EmptyObj))
     ELSE Get(container, key)

\* prepareForRead(shape, stored, decryptFn)
prepareForRead(shape, stored) == readChildren(shape, stored, EmptyObj)

\* The caller stores an entity: stored = schema.prepareForStorage(input, ...)
RoundTrip_Store ==
  /\ pc = "call"
  /\ op = "roundTrip"
  /\ working' = prepareForStorage(schema.shape, input)
  /\ pc' = "stored"
  /\ UNCHANGED <<schema, op, input, input0, existing, result, errors, idx, trace, ret>>
  /\ UNCHANGED compositionVars

\* and reads it back: schema.prepareForRead(stored, decryptFn)
RoundTrip_Read ==
  /\ pc = "stored"
  /\ op = "roundTrip"
  /\ ret' = prepareForRead(schema.shape, working)
  /\ pc' = "done"
  /\ UNCHANGED <<schema, op, input, input0, existing, working, result, errors, idx, trace>>
  /\ UNCHANGED compositionVars

----------------------------------------------------------------------------
(* Schema.sanitizeForLog: the log-time PII handling of                     *)
(* src/unnamed/part_004.                                                   *)

\* def._pii?.logHandling
logHandling(def) == IF "logHandling" \in DOMAIN def THEN def.logHandling ELSE "none"

\* The caller's pseudonymFn
pseudonymFn(value) == Str("p(" \o ToStr(value) \o ")")

\* if (child !== undefined) obj[k] = child
KeepVisited_always(obj, k, child) == Put(obj, k, child)

KeepVisited(obj, k, child) == IF child.t # "undefined" THEN Put(obj, k, child) ELSE obj

RECURSIVE visit(_, _), visitChildren(_, _, _)

\* for (const [k, childDef] of Object.entries(shape)) {
\*   const child = visit(childDef, src[k]); if (child !== undefined) obj[k] = child }
visitChildren(fields, src, obj) ==
  IF Len(fields) = 0 THEN obj
  ELSE visitChildren(Tail(fields), src,
                     KeepVisited(obj, fields[1].key,
                                 visit(fields[1].def, Get(src, fields[1].key))))

\* visit(def, value): what is logged for the value, undefined for nothing
visit(def, value) ==
  IF logHandling(def) = "omit" THEN Undefined
  ELSE IF logHandling(def) = "redact" THEN Str("[REDACTED]")
  ELSE IF logHandling(def) = "pseudonym" THEN pseudonymFn(value)
  ELSE IF def.type = "object" /\ def.shape.t = "shape"
  THEN visitChildren(def.shape.fields, Coalesce(value, EmptyObj), EmptyObj)
  ELSE IF def.type = "array" /\ def.itemType.t = "field"
  THEN IF ~IsArray(value) THEN Undefined
       ELSE Arr(SelectSeq([i \in 1..Len(value.a) |-> visit(def.itemType, value.a[i])],
                          LAMBDA v : v.t # "undefined"))
  ELSE IF def.type = "ref"
  THEN LET ref == IF Truthy(value)
                  THEN Put(Put(EmptyObj, "type", Get(value, "type")), "id", Get(value, "id"))
                  ELSE EmptyObj
       IN IF def.shape.t = "shape"
          THEN visitChildren(def.shape.fields, Coalesce(value, EmptyObj), ref)
          ELSE ref
  ELSE value

\* sanitizeForLog(shape, data, pseudonymFn)
sanitizeForLog(shape, data) == visitChildren(shape, data, EmptyObj)

\* schema.sanitizeForLog(data, pseudonymFn)
SanitizeForLog ==
  /\ pc = "call"
  /\ op = "sanitizeForLog"
  /\ ret' = sanitizeForLog(schema.shape, input)
  /\ pc' = "done"
  /\ UNCHANGED <<schema, op, input, input0, existing, working, result, errors, idx, trace>>
  /\ UNCHANGED compositionVars

----------------------------------------------------------------------------
(* Schema.scrubPiiForDelete of src/unnamed/part_004.  The result is a      *)
(* shallow copy of `stored`: the objects and arrays below its top level    *)
(* are the caller's own, so a write below the top level of the result is a *)
(* write into `stored`.  The scrub is threaded as the pair of the result   *)
(* and of `stored` as it is now.                                           *)

\* cur[p] for a step p of a path: a name or an index
At(cur, p) ==
  IF p.t = "number"
  THEN IF IsArray(cur) /\ p.n \in DOMAIN cur.a THEN cur.a[p.n] ELSE Undefined
  ELSE Get(cur, p.s)

\* cur[p] = v
SetAt(cur, p, v) ==
  IF p.t = "number"
  THEN Arr([i \in 1..(IF p.n > Len(cur.a) THEN p.n ELSE Len(cur.a)) |->
              IF i = p.n THEN v ELSE IF i \in DOMAIN cur.a THEN cur.a[i] ELSE Undefined])
  ELSE Put(cur, p.s, v)

RECURSIVE setAtPath(_, _, _)

\* setAtPath(target, path, val): the target after the call
setAtPath(target, path, val) ==
  IF Len(path) = 1 THEN SetAt(target, path[1], val)
  ELSE LET cur == At(target, path[1])
           made == IF cur.t = "undefined"
                   THEN (IF path[2].t = "number" THEN Arr(<<>>) ELSE EmptyObj)
                   ELSE cur
       IN SetAt(target, path[1], setAtPath(made, Tail(path), val))

Scrub(res, stored) == [result |-> res, stored |-> stored]

\* setAtPath(result, path, null), and what it does to `stored`
SetNull(st, path) ==
  Scrub(setAtPath(st.result, path, Null),
        IF Len(path) >= 2 /\ SharedWithInput(st.stored, path[1].s, Get(st.result, path[1].s))
        THEN setAtPath(st.stored, path, Null)
        ELSE st.stored)

\* applyPath(targetKey)
applyPath(st, path, targetKey) ==
  IF path[Len(path)].t = "number"
  THEN SetNull(st, Append(path, Str(targetKey)))
  ELSE SetNull(st, Append(SubSeq(path, 1, Len(path) - 1), Str(targetKey)))

RECURSIVE scrubVisit(_, _, _, _, _), scrubChildren(_, _, _, _), scrubItems(_, _, _, _, _, _)

\* for (const [k, childDef] of Object.entries(shape)) visit(childDef, host, [...path, k], k)
scrubChildren(fields, host, path, st) ==
  IF Len(fields) = 0 THEN st
  ELSE scrubChildren(Tail(fields), host, path,
                     scrubVisit(fields[1].def, host, Append(path, Str(fields[1].key)),
                                fields[1].key, st))

\* arr.forEach((item, idx) => visit(def.itemType, item, [...path, idx], keyName))
scrubItems(itemType, arr, i, path, keyName, st) ==
  IF i > Len(arr.a) THEN st
  ELSE scrubItems(itemType, arr, i + 1, path, keyName,
                  scrubVisit(itemType, arr.a[i], Append(path, Num(i)), keyName, st))

\* visit(def, host, path, keyName)
scrubVisit(def, host, path, keyName, st) ==
  IF piiAction(def) = "encrypt"
  THEN IF HasKey(host, keyName \o "Encrypted") THEN applyPath(st, path, keyName \o "Encrypted")
       ELSE st
  ELSE IF piiAction(def) = "hash"
  THEN IF HasKey(host, keyName \o "Hash") THEN applyPath(st, path, keyName \o "Hash") ELSE st
  ELSE IF piiAction(def) = "clear"
  THEN IF HasKey(host, keyName) THEN SetNull(st, path) ELSE st
  ELSE IF def.type = "object" /\ def.shape.t = "shape"
  THEN scrubChildren(def.shape.fields,
                     IF HasKey(host, keyName) THEN Get(host, keyName) ELSE host, path, st)
  ELSE IF def.type = "array" /\ def.itemType.t = "field"
  THEN IF IsArray(Get(host, keyName))
       THEN scrubItems(def.itemType, Get(host, keyName), 1, path, keyName, st)
       ELSE st
  ELSE IF def.type = "ref" /\ def.shape.t = "shape" /\ Truthy(Get(host, keyName))
  THEN scrubChildren(def.shape.fields, Get(host, keyName), path, st)
  ELSE st

\* scrubPiiForDelete(shape, stored): the result, and `stored` after the call
scrubPiiForDelete(shape, stored) == scrubChildren(shape, stored, <<>>, Scrub(stored, stored))

\* schema.scrubPiiForDelete(stored)
ScrubPiiForDelete ==
  /\ pc = "call"
  /\ op = "scrubPiiForDelete"
  /\ ret' = scrubPiiForDelete(schema.shape, input).result
  /\ input' = scrubPiiForDelete(schema.shape, input).stored
  /\ pc' = "done"
  /\ UNCHANGED <<schema, op, input0, existing, working, result, errors, idx, trace>>
  /\ UNCHANGED compositionVars

----------------------------------------------------------------------------
(* The caller validates what validate returned: validate(validate(e).value) *)

\* The record of a call of validate(e) that returned r
Validated(e, r) == [fn |-> "validated", input |-> e, ret |-> r]

\* The call in progress is a second call, on the value the first one returned
Revalidating == Len(trace) > 0 /\ trace[1].fn = "validated"

\* The first call returned a valid result, and the caller passes its value
\* to validate again (without `existing`)
Revalidate ==
  /\ pc = "done"
  /\ op = "validate"
  /\ ~Revalidating
  /\ ret.valid
  /\ input' = ret.value
  /\ input0' = ret.value
  /\ existing' = Undefined
  /\ pc' = "call"
  /\ working' = EmptyObj
  /\ result' = EmptyObj
  /\ errors' = <<>>
  /\ idx' = 1
  /\ trace' = <<Validated(input0, ret)>>
  /\ ret' = Undefined
  /\ UNCHANGED <<schema, op>>
  /\ UNCHANGED compositionVars

----------------------------------------------------------------------------
(* The caller passes one entity to validate and then to Schema.upgrade.    *)

\* The record of a call of validate(e): the calls of the schema-level
\* upgrade functions it made
Ran(e, calls) == [fn |-> "ran", input |-> e, calls |-> calls]

\* The call in progress is the call of upgrade that follows a call of validate
Comparing == Len(trace) > 0 /\ trace[1].fn = "ran"

\* validate has returned, and the caller passes the same entity to upgrade
UpgradeSame ==
  /\ pc = "done"
  /\ op = "validate"
  /\ ~Comparing
  /\ ~Revalidating
  /\ op' = "upgrade"
  /\ input' = input0
  /\ pc' = "call"
  /\ working' = EmptyObj
  /\ result' = EmptyObj
  /\ errors' = <<>>
  /\ idx' = 1
  /\ trace' = <<Ran(input0, SelectSeq(trace, LAMBDA e : e.fn = "schemaUpgrade"))>>
  /\ ret' = Undefined
  /\ UNCHANGED <<schema, input0, existing>>
  /\ UNCHANGED compositionVars

----------------------------------------------------------------------------
(* The calls the model explores.  A scenario is a schema (the caller's     *)
(* shape and options), the method called and its arguments.                *)

EntityType == "X"
SchemaVersion == "2.0.0"

NoUpgrade == [kind |-> "none", run |-> "", steps |-> <<>>]
UpgradeFunction(run) == [kind |-> "function", run |-> run, steps |-> <<>>]
UpgradeSteps(steps) == [kind |-> "steps", run |-> "", steps |-> steps]
Step(to, run) == [to |-> to, run |-> run]

Options(enforcement, upgrade) ==
  [version |-> SchemaVersion, piiEnforcement |-> enforcement,
   schemaUpgrade |-> upgrade, schemaValidator |-> "none"]

\* obj with key k holding v, or obj itself when v is undefined (the key is absent)
With(obj, k, v) == IF v.t = "undefined" THEN obj ELSE Put(obj, k, v)

\* The state in which the caller is about to call `method` of the schema
\* created from (shape, options) with the arguments (in, exist)
Start(shape, options, method, in, exist) ==
  /\ schema = createSchema(shape, EntityType, options)
  /\ op = method
  /\ input = in
  /\ input0 = in
  /\ existing = exist
  /\ pc = "call"
  /\ working = EmptyObj
  /\ result = EmptyObj
  /\ errors = <<>>
  /\ idx = 1
  /\ trace = <<>>
  /\ ret = Undefined
  /\ globalSchemaRegistry = <<>>
  /\ entities = <<>>
  /\ callOptions = Undefined
  /\ stack = <<>>
  /\ contexts = <<>>

Next == Validate_Begin \/ Validate_Field \/ Validate_Finish

\* Calls of validate on a schema  { f: <one field>, g: number }
MainDefs ==
  { Field("string"),
    [Field("string") EXCEPT !.isRequired = FALSE],
    [Field("string") EXCEPT !.isRequired = FALSE, !.default = Str("D")],
    [Field("string") EXCEPT !.isImmutable = TRUE],
    [Field("string") EXCEPT !.validator = "isA"],
    [Field("string") EXCEPT !.validator = "isA", !.upgrade = "toA"],
    [Field("string") EXCEPT !.upgrade = "fail"],
    [Field("string") EXCEPT !.upgrade = "failQuiet", !.default = Str("D"), !.isRequired = FALSE],
    [Field("string") EXCEPT !.pii = "high", !.validator = "isA"],
    Field("number") }

MainUpgrades(version) ==
  IF version = Str("1.0.0")
  THEN { NoUpgrade, UpgradeFunction("mark"), UpgradeFunction("fail"),
         UpgradeFunction("failQuiet"), UpgradeFunction("noValue"), UpgradeFunction("setF"),
         UpgradeSteps(<<Step("2.0.0", "mark"), Step("1.1.0", "setF")>>),
         UpgradeSteps(<<Step("1.1.0", "fail"), Step("2.0.0", "mark")>>) }
  ELSE { NoUpgrade, UpgradeFunction("mark") }

\* obj built from the values of four keys
Input4(t, v, fv, gv) ==
  With(With(With(With(EmptyObj, "type", t), "version", v), "f", fv), "g", gv)

Init ==
  \/ \E d \in MainDefs,
        t \in {Undefined, Str(EntityType), Str("B")},
        v \in {Undefined, Str("1.0.0"), Str(SchemaVersion)},
        fv \in {Undefined, Null, Str(""), Str("A"), Str("B"), Num(1)},
        gv \in {Undefined, Num(1)},
        ex \in {Undefined, Obj([f |-> Str("A")])} :
       \E u \in MainUpgrades(v) :
         Start(<<Entry("f", d), Entry("g", Field("number"))>>,
               Options(IF d.pii = "high" THEN "strict" ELSE "none", u),
               "validate", Input4(t, v, fv, gv), ex)
  \/ \E d \in MainDefs, in \in {Null, Str("A"), Undefined} :
       Start(<<Entry("f", d), Entry("g", Field("number"))>>,
             Options("none", NoUpgrade), "validate", in, Undefined)

Spec == Init /\ [][Next]_vars

\* Calls of validate with one key in the input and one key in `existing`,
\* on a schema { f: <one field> }
ImmutableDefs ==
  { [Field("string") EXCEPT !.isImmutable = TRUE],
    [Field("string") EXCEPT !.isImmutable = TRUE, !.validator = "isA"],
    [Field("string") EXCEPT !.isImmutable = TRUE, !.pii = "high"],
    [Field("number") EXCEPT !.isImmutable = TRUE],
    [Field("string") EXCEPT !.isImmutable = TRUE, !.isRequired = FALSE, !.default = Str("D")],
    Field("string") }

InitImmutable ==
  \E d \in ImmutableDefs,
     k \in {"type", "version", "f"},
     a \in {Str("A"), Str("B")},
     ex \in {Undefined} \cup {Obj([j \in {k2} |-> Str("A")]) : k2 \in {"type", "version", "f"}},
     e \in {"none", "strict"} :
    Start(<<Entry("f", d)>>, Options(e, UpgradeFunction("fail")), "validate",
          Obj([j \in {k} |-> a]), ex)

SpecImmutable == InitImmutable /\ [][Next]_vars

\* Calls of validate on a schema { f: <a high-PII field>, g: number }
PIIDefs ==
  { [Field("string") EXCEPT !.pii = p, !.isRequired = r, !.validator = val, !.upgrade = up] :
      p \in {"high", "low"}, r \in BOOLEAN,
      val \in {"none", "isA"}, up \in {"none", "toA", "fail"} }

InitPII ==
  \E d \in PIIDefs,
     e \in {"strict", "warn", "none"},
     v \in {Undefined, Str("1.0.0")},
     fv \in {Undefined, Null, Str(""), Str("A"), Str("B")},
     gv \in {Undefined, Num(1)} :
    Start(<<Entry("f", d), Entry("g", Field("number"))>>, Options(e, NoUpgrade),
          "validate", Input4(Undefined, v, fv, gv), Undefined)

SpecPII == InitPII /\ [][Next]_vars

\* The longest array a caller passes
MaxItems == 2

\* The arrays of at most MaxItems elements drawn from `elems`
ArraysOf(elems) ==
  {Arr(a) : a \in UNION {[1..n -> elems] : n \in 0..MaxItems}}

RefTo(type, id) == Obj([type |-> Str(type), id |-> Str(id)])

\* Calls of validate on a schema { f: <an object, array or ref field> }
ChildWithDefault == <<Entry("c", [Field("string") EXCEPT !.isRequired = FALSE, !.default = Str("D")])>>

RefDef(refType) == [Field("ref") EXCEPT !.refType = refType]

ArrayDef(itemDef) == [Field("array") EXCEPT !.itemType = itemDef]

NestedDefs ==
  { [Field("object") EXCEPT !.shape = Shape(ChildWithDefault)],
    [Field("object") EXCEPT !.shape = Shape(<<Entry("c", Field("string"))>>)],
    ArrayDef([Field("object") EXCEPT !.shape = Shape(ChildWithDefault)]),
    ArrayDef([RefDef("character") EXCEPT !.shape = Shape(ChildWithDefault)]),
    ArrayDef(RefDef("character")),
    [ArrayDef(RefDef("character")) EXCEPT !.validator = "never"],
    RefDef("character"),
    [RefDef("character") EXCEPT !.validator = "never"] }

NestedElements ==
  { EmptyObj, Obj([c |-> Str("A")]), RefTo("character", "1"), RefTo("wrong", "1"),
    Obj([type |-> Str("wrong")]) }

\* Calls of validate on a schema { f: <a string or number field with an enum,
\* or an array of such> }
EnumOf(type, values) == [Field(type) EXCEPT !.enum = Arr(values)]

EnumDefs ==
  { EnumOf("string", <<Str("A"), Str("B"), Str("C")>>),
    EnumOf("number", <<Num(1), Num(2), Num(3)>>),
    ArrayDef(EnumOf("string", <<Str("A"), Str("B"), Str("C")>>)),
    ArrayDef(EnumOf("number", <<Num(1), Num(2), Num(3)>>)) }

EnumScalars == {Str("A"), Str("B"), Str("C"), Str("D"), Num(1), Num(2), Num(3), Num(4)}

EnumElements == {Str("A"), Str("D"), Str("E"), Num(1), Num(4)}

InitStructured ==
  \/ \E d \in NestedDefs,
        fv \in {Undefined} \cup NestedElements \cup ArraysOf(NestedElements) :
       Start(<<Entry("f", d)>>, Options("none", NoUpgrade), "validate",
             With(EmptyObj, "f", fv), Undefined)
  \/ \E d \in EnumDefs, fv \in EnumScalars \cup ArraysOf(EnumElements) :
       Start(<<Entry("f", d)>>, Options("none", NoUpgrade), "validate",
             With(EmptyObj, "f", fv), Undefined)

SpecStructured == InitStructured /\ [][Next]_vars

\* The longest cascade a caller declares
MaxSteps == 3

\* Calls of validate and of upgrade on a schema without caller fields whose
\* schemaUpgrade is a cascade of at most MaxSteps steps, declared in any order
CascadeSteps ==
  {Step(to, run) : to \in {"1.1.0", "1.2.0", "2.0.0", "3.0.0"}, run \in {"mark", "fail"}}

InitCascade ==
  \E n \in 0..MaxSteps :
    \E steps \in [1..n -> CascadeSteps],
       v \in {Undefined, Str("1.0.0"), Str("1.1.0"), Str("1.2.0"), Str("2.0.0"), Str("3.0.0")},
       method \in {"validate", "upgrade"} :
      Start(<<>>, Options("none", UpgradeSteps(steps)), method,
            With(EmptyObj, "version", v), Undefined)

NextCascade == Next \/ Upgrade

SpecCascade == InitCascade /\ [][NextCascade]_vars

\* Calls of validate and of upgrade on a schema whose schemaUpgrade is one
\* function or a cascade of at most MaxSteps steps, some of which fail: by
\* reporting errors, by reporting none, or by omitting the value
FailingRuns == {"mark", "fail", "failQuiet", "noValue"}

FailingSteps == {Step(to, run) : to \in {"1.1.0", "2.0.0"}, run \in FailingRuns}

InitCascadeFail ==
  \E v \in {Undefined, Str("1.0.0"), Str("1.1.0")}, method \in {"validate", "upgrade"} :
    \/ \E n \in 0..MaxSteps :
         \E steps \in [1..n -> FailingSteps] :
           Start(<<>>, Options("none", UpgradeSteps(steps)), method,
                 With(EmptyObj, "version", v), Undefined)
    \/ \E run \in FailingRuns :
         Start(<<>>, Options("none", UpgradeFunction(run)), method,
               With(EmptyObj, "version", v), Undefined)

SpecCascadeFail == InitCascadeFail /\ [][NextCascade]_vars

----------------------------------------------------------------------------
(* Calls of validateComposition: the entities are nodes "1", "2", "3" of   *)
(* type "node", each with a reference `next`; the root "1" also has an     *)
(* array of references `others`.                                           *)

\* The options object of a call of validateComposition
CompositionOptions(maxDepth, validatorContext, onlyFields) ==
  [t |-> "options", resolveEntity |-> "resolveEntity", maxDepth |-> maxDepth,
   validatorContext |-> validatorContext, onlyFields |-> onlyFields]

\* A validatorContext object: contexts[id] is its visited set
Context(id) == [t |-> "context", id |-> id]

\* An onlyFields array
OnlyFields(keys) == [t |-> "fields", keys |-> keys]

\* A field descriptor with one more attribute set on it
Lazy(def) == [k \in DOMAIN def \cup {"refPolicy"} |-> IF k = "refPolicy" THEN "lazy" ELSE def[k]]
NoAutoValidate(def) ==
  [k \in DOMAIN def \cup {"autoValidate"} |-> IF k = "autoValidate" THEN FALSE ELSE def[k]]

NodeShape(nextDef, othersDef) == <<Entry("next", nextDef), Entry("others", othersDef)>>

Node(id, next, others) ==
  With(With(Obj([type |-> Str("node"), id |-> Str(id)]), "next", next), "others", others)

\* A reference that does not say its type
RefById(id) == Obj([id |-> Str(id)])

\* The entities resolveEntity knows
Nodes(n1, n2, n3) ==
  [k \in {"node:1", "node:2", "node:3"} |->
     CASE k = "node:1" -> n1 [] k = "node:2" -> n2 [] OTHER -> n3]

\* The state in which the caller is about to call validateComposition on
\* the root with the options opts
StartComposition(shape, registered, nodes, opts, visited) ==
  /\ schema = createSchema(shape, "node", Options("none", NoUpgrade))
  /\ op = "validateComposition"
  /\ input = nodes["node:1"]
  /\ input0 = nodes["node:1"]
  /\ existing = Undefined
  /\ pc = "call"
  /\ working = EmptyObj
  /\ result = EmptyObj
  /\ errors = <<>>
  /\ idx = 1
  /\ trace = <<>>
  /\ ret = Undefined
  /\ globalSchemaRegistry = IF registered THEN [t \in {"node"} |-> schema] ELSE <<>>
  /\ entities = nodes
  /\ callOptions = opts
  /\ stack = <<>>
  /\ contexts = IF opts.validatorContext.t = "undefined" THEN <<>> ELSE <<visited>>

NextComposition == Compose_Call \/ Compose_Step \/ Compose_Return

Depths == {Undefined, Num(0), Num(1), Num(2), Num(5)}

OthersOfRoot ==
  { Undefined, Arr(<<>>),
    Arr(<<RefTo("node", "2"), RefTo("node", "3")>>),
    Arr(<<RefTo("node", "2"), RefTo("node", "2")>>),
    Arr(<<RefTo("node", "3"), RefTo("other", "2")>>),
    Arr(<<RefTo("node", "9"), RefTo("node", "2")>>) }

InitComposition ==
  \/ \E next1 \in {Undefined, RefTo("node", "1"), RefTo("node", "2"), RefById("2"),
                   RefTo("other", "2"), RefTo("node", "9")},
        next2 \in {Undefined, RefTo("node", "1"), RefTo("node", "3"), RefById("3"),
                   RefTo("other", "3"), RefTo("node", "9")},
        next3 \in {Undefined, RefTo("node", "1"), RefTo("node", "9")},
        others \in OthersOfRoot,
        maxDepth \in Depths,
        ctx \in {Undefined, Context(1)} :
       StartComposition(NodeShape(RefDef("node"), ArrayDef(RefDef("node"))), TRUE,
                        Nodes(Node("1", next1, others), Node("2", next2, Undefined),
                              Node("3", next3, Undefined)),
                        CompositionOptions(maxDepth, ctx, Undefined), {})
  \/ \E nextDef \in {RefDef("node"), Lazy(RefDef("node")), NoAutoValidate(RefDef("node")),
                     RefDef("")},
        othersDef \in {ArrayDef(RefDef("node")), Lazy(ArrayDef(RefDef("node"))),
                       ArrayDef(RefDef("")), ArrayDef(Field("string"))},
        registered \in BOOLEAN,
        others \in {Undefined, Arr(<<>>), Arr(<<RefTo("node", "2"), RefTo("node", "3")>>)},
        maxDepth \in {Undefined, Num(2)},
        only \in {Undefined, OnlyFields({"next"}), OnlyFields({"others"})},
        visited \in {{}, {"node:1"}, {"node:2"}} :
       StartComposition(NodeShape(nextDef, othersDef), registered,
                        Nodes(Node("1", RefTo("node", "2"), others),
                              Node("2", RefTo("node", "3"), Undefined),
                              Node("3", RefTo("node", "9"), Undefined)),
                        CompositionOptions(maxDepth, Context(1), only), visited)

SpecComposition == InitComposition /\ [][NextComposition]_vars


----------------------------------------------------------------------------
(* Calls of prepareForStorage on a schema { f: <a field>, g: string },     *)
(* where f is a leaf, an object, an array or a ref, with a PII action on   *)
(* itself, on a child or on its items.                                     *)

\* field.<type>().PID({ action })
PID(def, action) ==
  [k \in DOMAIN def \cup {"piiAction"} |-> IF k = "piiAction" THEN action ELSE def[k]]

PIIActions == {"none", "encrypt", "hash", "clear"}

\* The shape { c: <string with the action>, d: string }
SecretChild(action) == <<Entry("c", PID(Field("string"), action)), Entry("d", Field("string"))>>

ObjectOf(fields) == [Field("object") EXCEPT !.shape = Shape(fields)]
RefOf(fields) == [RefDef("user") EXCEPT !.shape = Shape(fields)]

StorageDefs ==
  UNION { { PID(Field("string"), a),
            ObjectOf(SecretChild(a)),
            ObjectOf(<<Entry("o", ObjectOf(SecretChild(a)))>>),
            RefOf(SecretChild(a)),
            ArrayDef(PID(Field("string"), a)),
            ArrayDef(ObjectOf(SecretChild(a))),
            ArrayDef(RefOf(SecretChild(a))),
            PID(ArrayDef(Field("string")), a) } : a \in PIIActions }
    \cup {RefDef("user")}

\* The values of f the calls pass for a field described by def
Holder(c) == With(Put(Put(EmptyObj, "id", Str("u1")), "d", Str("plain")), "c", c)

StorageValues(def) ==
  {Undefined, Null} \cup
  (IF def.type = "string" THEN {Str("x"), Str("")}
   ELSE IF def.type = "array"
   THEN ArraysOf(IF def.itemType.type = "string" THEN {Str("x"), Null}
                 ELSE {Holder(Str("x")), Holder(Undefined)})
   ELSE IF def.shape.t = "shape" /\ def.shape.fields[1].key = "o"
   THEN {EmptyObj, Obj([o |-> Holder(Str("x"))])}
   ELSE {EmptyObj, Holder(Str("x")), Holder(Null), Holder(Undefined)})

InitStorage ==
  \E d \in StorageDefs, ga \in {"none", "encrypt"}, gv \in {Undefined, Str("y")} :
    \E fv \in StorageValues(d) :
      Start(<<Entry("f", d), Entry("g", PID(Field("string"), ga))>>, Options("none", NoUpgrade),
            "prepareForStorage", With(With(EmptyObj, "f", fv), "g", gv), Undefined)

NextStorage == PrepareForStorage

SpecStorage == InitStorage /\ [][NextStorage]_vars

----------------------------------------------------------------------------
(* An entity stored with prepareForStorage and read back with              *)
(* prepareForRead, on the schemas { f: <a field>, g: string } of the       *)
(* storage calls.                                                          *)

InitRoundTrip ==
  \E d \in StorageDefs, ga \in {"none", "encrypt"}, gv \in {Undefined, Str("y")} :
    \E fv \in StorageValues(d) :
      Start(<<Entry("f", d), Entry("g", PID(Field("string"), ga))>>, Options("none", NoUpgrade),
            "roundTrip", With(With(EmptyObj, "f", fv), "g", gv), Undefined)

NextRoundTrip == RoundTrip_Store \/ RoundTrip_Read

SpecRoundTrip == InitRoundTrip /\ [][NextRoundTrip]_vars

----------------------------------------------------------------------------
(* Calls of sanitizeForLog on a schema { f: <a field>, g: string }, where  *)
(* f is a leaf, an object, an array or a ref, with a logHandling on        *)
(* itself, on a child or on its items.                                     *)

\* field.<type>().PID({ logHandling })
LogAs(def, handling) ==
  [k \in DOMAIN def \cup {"logHandling"} |-> IF k = "logHandling" THEN handling ELSE def[k]]

LogHandlings == {"omit", "redact", "pseudonym", "plain"}

\* The shape { c: <string with the handling>, d: string }
LoggedChild(handling) ==
  <<Entry("c", LogAs(Field("string"), handling)), Entry("d", Field("string"))>>

LogDefs ==
  UNION { { LogAs(Field("string"), h),
            ObjectOf(LoggedChild(h)),
            LogAs(ObjectOf(LoggedChild("plain")), h),
            ObjectOf(<<Entry("o", ObjectOf(LoggedChild(h)))>>),
            RefOf(LoggedChild(h)),
            RefOf(<<Entry("id", LogAs(Field("string"), h))>>),
            ArrayDef(LogAs(Field("string"), h)),
            ArrayDef(ObjectOf(LoggedChild(h))),
            ArrayDef(RefOf(LoggedChild(h))),
            LogAs(ArrayDef(Field("string")), h) } : h \in LogHandlings }
    \cup {Field("string"), RefDef("user")}

InitLog ==
  \E d \in LogDefs, gh \in {"plain", "omit"}, gv \in {Undefined, Null, Str(""), Str("y")} :
    \E fv \in StorageValues(d) :
      Start(<<Entry("f", d), Entry("g", LogAs(Field("string"), gh))>>, Options("none", NoUpgrade),
            "sanitizeForLog", With(With(EmptyObj, "f", fv), "g", gv), Undefined)

NextLog == SanitizeForLog

SpecLog == InitLog /\ [][NextLog]_vars

----------------------------------------------------------------------------
(* Calls of scrubPiiForDelete on what prepareForStorage stored, for the    *)
(* schemas { f: <a field>, g: string } of the storage calls.               *)

InitScrub ==
  \E d \in StorageDefs, ga \in {"none", "encrypt"}, gv \in {Undefined, Str("y")} :
    \E fv \in StorageValues(d) :
      LET shape == <<Entry("f", d), Entry("g", PID(Field("string"), ga))>>
          sch == createSchema(shape, EntityType, Options("none", NoUpgrade))
      IN Start(shape, Options("none", NoUpgrade), "scrubPiiForDelete",
               prepareForStorage(sch.shape, With(With(EmptyObj, "f", fv), "g", gv)), Undefined)

NextScrub == ScrubPiiForDelete

SpecScrub == InitScrub /\ [][NextScrub]_vars

----------------------------------------------------------------------------
(* Calls of validate, each followed by a call on the value it returned     *)
(* when it was valid.                                                      *)

InitTwice == Init \/ InitStructured \/ InitImmutable

NextTwice == Next \/ Revalidate

SpecTwice == InitTwice /\ [][NextTwice]_vars

----------------------------------------------------------------------------
\* Calls of upgrade on entities that carry another type and any version, on
\* a schema without schemaUpgrade, with one function, or with a cascade of at
\* most MaxSteps steps; some upgraders stamp a type and version of their own
StampRuns == {"mark", "restamp", "fail"}

StampSteps == {Step(to, run) : to \in {"1.1.0", "2.0.0"}, run \in StampRuns}

InitStamp ==
  \E t \in {Undefined, Str(EntityType), Str("B")},
     v \in {Undefined, Str("1.0.0"), Str("1.1.0"), Str(SchemaVersion), Str("3.0.0")} :
    \/ \E n \in 0..MaxSteps :
         \E steps \in [1..n -> StampSteps] :
           Start(<<>>, Options("none", UpgradeSteps(steps)), "upgrade",
                 With(With(EmptyObj, "type", t), "version", v), Undefined)
    \/ \E u \in {NoUpgrade} \cup {UpgradeFunction(run) : run \in StampRuns \cup {"noValue"}} :
         Start(<<>>, Options("none", u), "upgrade",
               With(With(EmptyObj, "type", t), "version", v), Undefined)

NextStamp == Upgrade

SpecStamp == InitStamp /\ [][NextStamp]_vars

----------------------------------------------------------------------------
\* Calls of cmpSemver on versions with three numeric components, with a
\* missing component, and with a component that is not a number
Versions ==
  {"0.0.0", "1.0.0", "1.1.0", "1.2.0", "2.0.0", "1.x.0", "1.1x.0", "1..0", "x.1.0",
   "1.0.x", "1.1", "1.0", "1", "2", "x"}

InitCompare ==
  \E a \in Versions, b \in Versions :
    Start(<<>>, Options("none", NoUpgrade), "cmpSemver",
          Obj([a |-> Str(a), b |-> Str(b)]), Undefined)

NextCompare == CmpSemver

SpecCompare == InitCompare /\ [][NextCompare]_vars

----------------------------------------------------------------------------
\* Calls of validate on an entity as it is stored, at the schema's version
\* or an older one, with the stored entity itself passed as `existing`
StoredUpgrades ==
  { NoUpgrade, UpgradeFunction("mark"), UpgradeFunction("setF"), UpgradeFunction("fail"),
    UpgradeSteps(<<Step("1.1.0", "mark"), Step("2.0.0", "mark")>>) }

InitStored ==
  \E d \in MainDefs,
     v \in {Str("1.0.0"), Str("1.1.0"), Str(SchemaVersion)},
     fv \in {Str("A"), Str("B")},
     gv \in {Undefined, Num(1)},
     u \in StoredUpgrades :
    Start(<<Entry("f", d), Entry("g", Field("number"))>>,
          Options(IF d.pii = "high" THEN "strict" ELSE "none", u),
          "validate", Input4(Str(EntityType), v, fv, gv), Input4(Str(EntityType), v, fv, gv))

SpecStored == InitStored /\ [][Next]_vars

----------------------------------------------------------------------------
\* Calls of validate, each followed by a call of upgrade on the same entity:
\* entities with no version, a null version, and versions below, at and
\* beyond the schema's, on schemas with no schemaUpgrade, one function, or a
\* cascade of at most MaxSteps steps
BothSteps == {Step(to, run) : to \in {"1.1.0", "2.0.0"}, run \in {"mark", "fail"}}

InitBoth ==
  \E v \in {Undefined, Null, Str("1.0.0"), Str("1.1.0"), Str(SchemaVersion), Str("3.0.0")} :
    \/ \E n \in 0..MaxSteps :
         \E steps \in [1..n -> BothSteps] :
           Start(<<>>, Options("none", UpgradeSteps(steps)), "validate",
                 With(EmptyObj, "version", v), Undefined)
    \/ \E u \in {NoUpgrade, UpgradeFunction("mark"), UpgradeFunction("fail")} :
         Start(<<>>, Options("none", u), "validate", With(EmptyObj, "version", v), Undefined)

NextBoth == Next \/ UpgradeSame \/ Upgrade

SpecBoth == InitBoth /\ [][NextBoth]_vars

----------------------------------------------------------------------------
(* Properties of validate.                                                 *)

\* validate has returned
Done == pc = "done" /\ op = "validate"

\* validate has returned after running its field loop
LoopRan == Done /\ IsObject(ret.value)

\* The returned result carries the error `msg`
Reports(msg) == Done /\ Includes(ret.errors, msg)

\* The entries of the schema's shape
Entries == {schema.shape[i] : i \in 1..Len(schema.shape)}

RequiredNoDefault(def) == def.isRequired /\ def.default = Undefined

\* The schema-level upgrade runs on the caller's input
UpgradeRuns ==
  /\ IsObject(input0)
  /\ NeedsSchemaUpgrade(schema, VersionOf(WithSystemDefaults(schema, input0)))

\* C2 as stated: for every field with isRequired true and no default, an
\* input object that omits the field is rejected with the error
\* "Missing required field: <path>".
C2_EveryRequiredField ==
  Done /\ IsObject(input0) =>
    \A e \in Entries :
      RequiredNoDefault(e.def) /\ ~HasKey(input0, e.key) =>
        ~ret.valid /\ Reports("Missing required field: " \o e.key)

\* C2 amended: for every caller-declared top-level field with isRequired true
\* and no default, an input object that omits the field is rejected with the
\* error "Missing required field: <field>", provided no schema-level upgrade
\* runs on the input.  (The system fields type and version are filled in
\* when omitted; an upgrade may supply the field or abort the validation.)
C2_RequiredCallerField ==
  Done /\ IsObject(input0) /\ ~UpgradeRuns =>
    \A e \in Entries :
      /\ e.key \notin {"type", "version"}
      /\ RequiredNoDefault(e.def)
      /\ ~HasKey(input0, e.key)
      => ~ret.valid /\ Reports("Missing required field: " \o e.key)

C2_Witness ==
  /\ Done /\ IsObject(input0) /\ ~UpgradeRuns
  /\ RequiredNoDefault(schema.shape[3].def)
  /\ ~HasKey(input0, "f")
  /\ HasKey(input0, "g")
  /\ ret.errors = <<"Missing required field: f">>

\* C4 as stated: validate rejects every input whose `type` is present and
\* differs from the schema's entity type.
C4_TypeMustMatch ==
  Done /\ HasKey(input0, "type") /\ Get(input0, "type") # Str(schema.entityType)
    => ~ret.valid

\* The names of the fields the loop visited, in the order of the visits
RECURSIVE Visited(_)
Visited(events) ==
  IF Len(events) = 0 THEN <<>>
  ELSE IF events[1].fn = "visit" THEN <<events[1].key>> \o Visited(Tail(events))
  ELSE Visited(Tail(events))

\* The errors the field at position i of the shape produces on its own
OwnErrors(i) ==
  FieldStep(schema, input, working, existing, EmptyObj, <<>>,
            schema.shape[i].key, schema.shape[i].def).errors

\* C7: once the field loop of validate has started, every field of the shape
\* is visited, once and in the order of the shape, whatever fields
\* short-circuit; and the result carries the errors of every failing field.
C7_EveryFieldVisited ==
  LoopRan =>
    /\ Visited(trace) = [i \in 1..Len(schema.shape) |-> schema.shape[i].key]
    /\ \A i \in 1..Len(schema.shape) :
         \A j \in 1..Len(OwnErrors(i)) : Reports(OwnErrors(i)[j])
    /\ ret.valid = (\A i \in 1..Len(schema.shape) : OwnErrors(i) = <<>>)

C7_Witness ==
  /\ LoopRan
  /\ Reports("Field is immutable: f")
  /\ Reports("Missing required field: g")
  /\ Len(ret.errors) = 2

\* The calls of caller-supplied functions and the steps of field processing
\* recorded for field-level work
FieldEvents ==
  {i \in 1..Len(trace) :
     trace[i].fn \in {"visit", "default", "validator", "typeCheck", "fieldUpgrade"}}

\* The result of the schema-level upgrade on the caller's input
UpgradeResult ==
  applySchemaUpgrade(schema.schemaUpgrade, WithSystemDefaults(schema, input0),
                     UpgradeCtx(schema, VersionOf(WithSystemDefaults(schema, input0))))

\* C9: when the schema-level upgrade run by validate fails (it does not
\* report ok, or yields no value), validate returns valid = false with the
\* upgrade's errors, or the synthesized message when it reported none, and
\* no field is processed: no default applied, no validator, type check or
\* field upgrader run, no field error added, the result left empty.
C9_FailedUpgradeAborts ==
  Done /\ UpgradeRuns /\ (~UpgradeResult.ok \/ ~Truthy(UpgradeResult.value)) =>
    /\ ret.valid = FALSE
    /\ ret.value = Undefined
    /\ ret.errors = IF Len(UpgradeResult.errors) > 0 THEN UpgradeResult.errors
                    ELSE <<"Failed to upgrade entity from v"
                             \o VersionOf(WithSystemDefaults(schema, input0))
                             \o " to v" \o schema.version>>
    /\ FieldEvents = {}
    /\ result = EmptyObj
    /\ input = input0

C9_Witness ==
  /\ Done /\ UpgradeRuns
  /\ schema.schemaUpgrade.kind = "steps"
  /\ ~UpgradeResult.ok
  /\ ret.errors = <<"boom">>
  /\ ~HasKey(input0, "f")

\* The object { key: value }
Single(key, value) == Obj([j \in {key} |-> value])

\* C3: for every immutable field f and existing = {f: "A"}, validating
\* {f: "B"} against existing reports "Field is immutable: f", and validating
\* {f: "A"} against the same existing reports no immutability error for f.
C3_ImmutableField ==
  Done =>
    \A e \in Entries :
      e.def.isImmutable /\ existing = Single(e.key, Str("A")) =>
        /\ input0 = Single(e.key, Str("B")) =>
             ~ret.valid /\ Reports("Field is immutable: " \o e.key)
        /\ input0 = Single(e.key, Str("A")) =>
             ~Reports("Field is immutable: " \o e.key)

C3_Witness ==
  /\ Done
  /\ schema.shape[3].def.isImmutable
  /\ existing = Single("f", Str("A"))
  /\ input0 = Single("f", Str("B"))
  /\ ret.errors = <<"Field is immutable: f">>

\* The value the field loop found under `key` when it visited the field
VisitedValue(key) ==
  LET i == CHOOSE i \in 1..Len(trace) : trace[i].fn = "visit" /\ trace[i].key = key
  IN trace[i].arg

\* The checks after the PII step that ran for the field `key`
ChecksRun(key) ==
  {trace[i].fn : i \in {j \in 1..Len(trace) :
                          /\ trace[j].fn \in {"validator", "typeCheck", "fieldUpgrade"}
                          /\ trace[j].key = key}}

\* A required field with PII classification high and no default
HighPIIRequired(def) == def.pii = "high" /\ def.isRequired /\ def.default = Undefined

PIIError(key) == "High PII field must not be empty: " \o key

\* The type check, or the custom validator that precedes it, ran for `key`
RemainingChecksRun(key) == ChecksRun(key) \cap {"validator", "typeCheck"} # {}

C1_InputUnchanged == input = input0

\* The field at position i of the shape passed all its checks
Accepted(i) == OwnErrors(i) = <<>>

\* Every element of the array value v has the JavaScript type `type`
AllOfType(v, type) == IsArray(v) /\ \A j \in 1..Len(v.a) : TypeOf(v.a[j]) = type

\* The members of the array value v that are not among the enum values
Offending(v, enum) == SelectSeq(v.a, LAMBDA x : ~Includes(enum.a, x))

\* C5 as stated: a string or number field with an enum accepts exactly the
\* declared values and rejects every other value of its type, as a scalar
\* and as an element of an array; for an array the enum error lists exactly
\* the offending members.
C5_EnumClosure ==
  LoopRan =>
    \A i \in 1..Len(schema.shape) :
      LET def == schema.shape[i].def
          key == schema.shape[i].key
          v == VisitedValue(key)
      IN /\ /\ def.type \in {"string", "number"}
            /\ def.enum # Undefined
            /\ TypeOf(v) = def.type
            => (Accepted(i) <=> Includes(def.enum.a, v))
         /\ /\ def.type = "array"
            /\ def.itemType # Undefined
            /\ def.itemType.type \in {"string", "number"}
            /\ def.itemType.enum # Undefined
            /\ AllOfType(v, def.itemType.type)
            => /\ Accepted(i) <=> Offending(v, def.itemType.enum) = <<>>
               /\ ~Accepted(i) =>
                    OwnErrors(i) = <<"Field " \o key \o " contains invalid enum values: "
                                       \o Join(Offending(v, def.itemType.enum))>>

----------------------------------------------------------------------------
(* Properties of the upgrade engine.                                       *)

\* A call of validate or upgrade on a schema with a cascade has returned
CascadeDone == pc = "done" /\ schema.schemaUpgrade.kind = "steps"

\* The steps executed, in the order of their execution
Executed == SelectSeq(trace, LAMBDA e : e.fn = "schemaUpgrade")

Declared == schema.schemaUpgrade.steps

\* The entity the cascade starts from, and its version
Entity == IF op = "upgrade" THEN input0 ELSE WithSystemDefaults(schema, input0)

\* The cascade ran to its end: no executed step failed
CascadeSucceeded == IF op = "upgrade" THEN ret.ok ELSE IsObject(ret.value)

\* `to` lies in the window (entity version, target version]
InWindow(to) ==
  cmpSemver(VersionOf(Entity), to) < 0 /\ cmpSemver(to, schema.version) <= 0

\* The targets of S in ascending order
RECURSIVE Ascending(_)
Ascending(S) ==
  IF S = {} THEN <<>>
  ELSE LET least == CHOOSE x \in S : \A y \in S : cmpSemver(x, y) <= 0
       IN <<least>> \o Ascending(S \ {least})

\* The first step declared with target `to`
FirstDeclared(to) ==
  Declared[CHOOSE i \in 1..Len(Declared) :
             Declared[i].to = to /\ \A k \in 1..(i - 1) : Declared[k].to # to]

\* For every target in the window the first step declared with it, ascending
ExpectedSteps ==
  LET targets == Ascending({Declared[i].to : i \in {k \in 1..Len(Declared) :
                                                      InWindow(Declared[k].to)}})
  IN [j \in 1..Len(targets) |-> FirstDeclared(targets[j])]

\* Each executed step receives the entity, or the value the step executed
\* before it returned, and the version reached so far
Threaded ==
  \A j \in 1..Len(Executed) :
    IF j = 1
    THEN Executed[1].arg = Entity /\ Executed[1].from = VersionOf(Entity)
    ELSE /\ Executed[j].from = Executed[j - 1].to
         /\ Executed[j].arg = RunUpgrader(Executed[j - 1].run, Executed[j - 1].arg,
                                          [from |-> Executed[j - 1].from,
                                           to |-> Executed[j - 1].to,
                                           entityType |-> schema.entityType]).value

\* C10 as stated, for a cascade none of whose steps fails: the steps executed
\* are exactly the declared steps whose `to` lies in the window (entity
\* version, target version], in ascending order of `to`, each receiving the
\* value returned by the step executed before it.
C10_WindowSteps ==
  CascadeDone /\ CascadeSucceeded =>
    /\ Len(Executed) = Cardinality({i \in 1..Len(Declared) : InWindow(Declared[i].to)})
    /\ \A j \in 1..Len(Executed) : InWindow(Executed[j].to)
    /\ \A j, k \in 1..Len(Executed) :
         j < k => cmpSemver(Executed[j].to, Executed[k].to) <= 0
    /\ Threaded

\* C10 amended: whatever order the steps were declared in, the steps
\* executed are, for every distinct `to` in the window (entity version,
\* target version], the first step declared with that `to` (a further step
\* with the same `to` never runs, its `to` not being above the running
\* from-version), in strictly ascending order of `to`, each receiving the
\* value returned by the step executed before it; the run ends at the first
\* step that fails; steps at or below the entity's version never run.
C10_RunningWindow ==
  CascadeDone =>
    /\ Len(Executed) <= Len(ExpectedSteps)
    /\ \A j \in 1..Len(Executed) :
         /\ Executed[j].to = ExpectedSteps[j].to
         /\ Executed[j].run = ExpectedSteps[j].run
         /\ cmpSemver(VersionOf(Entity), Executed[j].to) < 0
         /\ (j < Len(Executed)) => Executed[j].run # "fail"
    /\ CascadeSucceeded => Len(Executed) = Len(ExpectedSteps)
    /\ ~CascadeSucceeded => Len(Executed) > 0 /\ Executed[Len(Executed)].run = "fail"
    /\ Threaded

C10_Witness ==
  /\ CascadeDone /\ CascadeSucceeded
  /\ op = "validate"
  /\ Declared = <<Step("2.0.0", "mark"), Step("1.1.0", "fail"), Step("1.2.0", "mark")>>
  /\ VersionOf(Entity) = "1.1.0"
  /\ Len(Executed) = 2
  /\ Executed[1].to = "1.2.0"
  /\ Get(working, Marker("1.2.0")) = Bool(TRUE)
  /\ Get(working, Marker("2.0.0")) = Bool(TRUE)
  /\ ~HasKey(working, Marker("1.1.0"))

\* The result the caller-supplied function of an executed step gave
StepResult(call) ==
  RunUpgrader(call.run, call.arg,
              [from |-> call.from, to |-> call.to, entityType |-> schema.entityType])

\* The step failed: it returned ok !== true, or omitted the value
StepFailed(call) == ~StepResult(call).ok \/ ~Truthy(StepResult(call).value)

\* The call returned a failure, with no value
ReturnedFailure ==
  IF op = "upgrade" THEN ret.ok = FALSE /\ ret.value = Undefined
  ELSE ret.valid = FALSE /\ ret.value = Undefined

\* C11: in cascade mode, once a step fails (it returns ok !== true or omits
\* the value) no later step is executed, and the overall result of the
\* upgrade is a failure ({ok: false}; validate returns valid false without
\* processing any field).
C11_FailingStepHalts ==
  CascadeDone =>
    \A j \in 1..Len(Executed) :
      StepFailed(Executed[j]) =>
        /\ j = Len(Executed)
        /\ ReturnedFailure
        /\ FieldEvents = {}

C11_Witness ==
  /\ CascadeDone
  /\ op = "upgrade"
  /\ Declared = <<Step("2.0.0", "mark"), Step("1.1.0", "noValue"), Step("2.0.0", "fail")>>
  /\ VersionOf(Entity) = "1.0.0"
  /\ Len(Executed) = 1
  /\ Executed[1].to = "1.1.0"
  /\ ret.ok = FALSE

\* A call on a schema with a schema-level upgrade has returned
UpgradeDone == pc = "done" /\ schema.schemaUpgrade.kind # "none"

\* The upgrade ran and its last executed function failed
UpgradeHasFailed == Len(Executed) > 0 /\ StepFailed(Executed[Len(Executed)])

\* The errors a failed upgrade is reported with: the failing function's own,
\* or the message naming the versions it was to upgrade from and to
FailureErrors ==
  LET last == Executed[Len(Executed)] IN
  IF Len(StepResult(last).errors) > 0 THEN StepResult(last).errors
  ELSE <<"Failed to upgrade entity from v" \o last.from \o " to v" \o last.to>>

\* C12: a failed schema-level upgrade (one function, or a step of a cascade)
\* is reported by upgrade as the returned result {ok: false, errors} and by
\* validate as the returned result {valid: false, errors}; errors is not
\* empty: it is the failing function's own errors, or a synthesized message
\* naming the from and to versions when it gave none.  Nothing is thrown.
C12_FailureIsReturned ==
  UpgradeDone /\ UpgradeHasFailed =>
    /\ DOMAIN ret = (IF op = "upgrade" THEN {"ok", "value", "errors"}
                     ELSE {"valid", "value", "errors"})
    /\ ReturnedFailure
    /\ ret.errors # <<>>
    /\ ret.errors = FailureErrors

C12_Witness ==
  /\ UpgradeDone /\ UpgradeHasFailed
  /\ op = "validate"
  /\ schema.schemaUpgrade.kind = "steps"
  /\ Len(Executed) = 2
  /\ StepResult(Executed[2]).ok
  /\ ret.errors = <<"Failed to upgrade entity from v1.1.0 to v2.0.0">>

----------------------------------------------------------------------------
(* Properties of the field-level upgrade.                                  *)

\* The field-level steps recorded for the field `key`, in order
EventsOf(key) ==
  SelectSeq(trace, LAMBDA e : e.fn \in {"visit", "default", "validator", "typeCheck",
                                         "fieldUpgrade"} /\ e.key = key)

\* The positions in EventsOf(key) at which the field's upgrader was invoked
UpgraderCalls(key) == {p \in 1..Len(EventsOf(key)) : EventsOf(key)[p].fn = "fieldUpgrade"}

\* The result of the upgrader of `def` on the value it was invoked with
UpgraderResult(key, def, p) ==
  RunFieldUpgrader(def.upgrade, EventsOf(key)[p].arg,
                   [entityFrom |-> VersionOf(working), entityTo |-> schema.version,
                    fieldName |-> key])

\* C13: within one validate call a field's upgrader is invoked at most once,
\* and only after the field's first validation pass produced an error while
\* the entity's version is strictly older than the schema's; after a
\* successful upgrade the field is validated again exactly once, on the
\* upgraded value, and after a failed one not at all.
C13_UpgraderOnce ==
  LoopRan =>
    \A e \in Entries :
      /\ Cardinality(UpgraderCalls(e.key)) <= 1
      /\ \A p \in UpgraderCalls(e.key) :
           LET evs == EventsOf(e.key)
               up == UpgraderResult(e.key, e.def, p)
           IN /\ e.def.upgrade # "none"
              /\ \E q \in 1..(p - 1) : evs[q].fn \in {"validator", "typeCheck"}
              /\ validateField(e.key, e.def, evs[p].arg).errors # <<>>
              /\ cmpSemver(VersionOf(working), schema.version) < 0
              /\ cmpSemver(VersionOf(WithSystemDefaults(schema, input0)), schema.version) < 0
              /\ SubSeq(evs, p + 1, Len(evs)) =
                   (IF up.ok THEN validateField(e.key, e.def, up.value).events ELSE <<>>)

C13_Witness ==
  /\ LoopRan
  /\ Get(input0, "f") = Str("B")
  /\ [i \in 1..Len(EventsOf("f")) |-> EventsOf("f")[i].fn]
       = <<"visit", "validator", "fieldUpgrade", "validator", "typeCheck">>
  /\ Get(ret.value, "f") = Str("A")
  /\ ret.valid

\* The errors of the first validation pass of the field, whose upgrader was
\* then invoked at position p
FirstPassErrors(key, def, p) == validateField(key, def, EventsOf(key)[p].arg).errors

\* The error reported for an upgrader that failed: its own, or the default
UpgraderError(key, def, p) ==
  IF UpgraderResult(key, def, p).error # "" THEN UpgraderResult(key, def, p).error
  ELSE "Failed to upgrade field " \o key \o " from v" \o VersionOf(working)
         \o " to v" \o schema.version

\* `part` occurs in `whole` as a run of consecutive elements
Contains(whole, part) ==
  \E k \in 0..(Len(whole) - Len(part)) : SubSeq(whole, k + 1, k + Len(part)) = part

\* C14 as stated: when a field's upgrader is invoked and fails, the errors
\* reported for the field are the upgrader's error (or the default message)
\* and none of the errors of its first validation pass.
C14_UpgraderErrorReplaces ==
  LoopRan =>
    \A i \in 1..Len(schema.shape) :
      LET key == schema.shape[i].key
          def == schema.shape[i].def
      IN \A p \in UpgraderCalls(key) :
           ~UpgraderResult(key, def, p).ok =>
             /\ Reports(UpgraderError(key, def, p))
             /\ \A k \in 1..Len(FirstPassErrors(key, def, p)) :
                  ~Reports(FirstPassErrors(key, def, p)[k])

\* C14 amended: when a field's upgrader is invoked and fails, the errors
\* reported for the field are the errors of its first validation pass
\* followed by the upgrader's error (or the default message "Failed to
\* upgrade field <f> from v<from> to v<to>" when it gave none).
C14_UpgraderErrorAppended ==
  LoopRan =>
    \A i \in 1..Len(schema.shape) :
      LET key == schema.shape[i].key
          def == schema.shape[i].def
      IN \A p \in UpgraderCalls(key) :
           ~UpgraderResult(key, def, p).ok =>
             /\ FirstPassErrors(key, def, p) # <<>>
             /\ OwnErrors(i) = Append(FirstPassErrors(key, def, p), UpgraderError(key, def, p))
             /\ Contains(ret.errors, OwnErrors(i))

C14_Witness ==
  /\ LoopRan
  /\ UpgraderCalls("f") # {}
  /\ HasKey(input0, "g")
  /\ ret.errors = <<"Field f must be string", "nope">>

\* The value of the field at position i when its checks begin: the value
\* found, or the default applied in its place
CheckedValue(i) ==
  applyDefault(schema.shape[i].def, VisitedValue(schema.shape[i].key)).value

\* The field at position i is absent, violates immutability, or is an empty
\* high-PII field under strict enforcement
CutShort(i) ==
  LET key == schema.shape[i].key
      def == schema.shape[i].def
  IN \/ IsNullish(CheckedValue(i))
     \/ /\ def.isImmutable
        /\ HasKey(existing, key)
        /\ CheckedValue(i) # Get(existing, key)
     \/ /\ def.pii = "high" /\ def.isRequired
        /\ CheckedValue(i) = Str("")
        /\ schema.piiEnforcement = "strict"

\* The value validate is to store for the field at position i: the working
\* value, or the upgraded one after a successful upgrade
ValueToStore(i) ==
  LET key == schema.shape[i].key
      def == schema.shape[i].def
  IN IF \E p \in UpgraderCalls(key) : UpgraderResult(key, def, p).ok
     THEN UpgraderResult(key, def, CHOOSE p \in UpgraderCalls(key) : TRUE).value
     ELSE Get(working, key)

\* C15 as stated: for every field of the shape that has a value, validate
\* stores the (possibly defaulted or upgraded) value into the returned
\* `value` object whether or not the field passed validation.
C15_StoredRegardless ==
  LoopRan =>
    \A i \in 1..Len(schema.shape) :
      ~IsNullish(CheckedValue(i)) =>
        /\ HasKey(ret.value, schema.shape[i].key)
        /\ Get(ret.value, schema.shape[i].key) = ValueToStore(i)

\* C15 amended: validate stores the (possibly defaulted or upgraded) value
\* of every field that reaches the custom validator and the type check,
\* whether or not it passes them; a field that is absent, that fails the
\* immutability check or that fails the strict PII check is left out of
\* the returned `value` object.
C15_StoredWhenValidated ==
  LoopRan =>
    \A i \in 1..Len(schema.shape) :
      IF CutShort(i)
      THEN ~HasKey(ret.value, schema.shape[i].key)
      ELSE /\ HasKey(ret.value, schema.shape[i].key)
           /\ Get(ret.value, schema.shape[i].key) = ValueToStore(i)

C15_Witness ==
  /\ LoopRan
  /\ ~CutShort(3)
  /\ ret.errors = <<"Invalid value for field: f">>
  /\ Get(ret.value, "f") = Str("B")
  /\ HasKey(ret.value, "g")

----------------------------------------------------------------------------
\* The same calls when every awaited promise settles: resolveEntity always
\* returns, and the continuation of an await that has settled is run
SpecCompositionFair ==
  InitComposition /\ [][NextComposition]_vars /\ WF_vars(NextComposition)

(* Properties of validateComposition *)

\* The calls of resolveEntity made so far, as positions in the trace
Resolutions == {i \in DOMAIN trace : trace[i].fn = "resolveEntity"}

\* The entities whose fields have been walked so far, as positions in the trace
Walks == {i \in DOMAIN trace : trace[i].fn = "walk"}

\* The reference's own type is present and is not the declared one
Mismatching(ref, refType) ==
  /\ HasKey(ref, "type")
  /\ Get(ref, "type").t = "string"
  /\ Get(ref, "type").s \notin {"", refType}

\* The reference the innermost call handles next, if its next step handles one
Pending ==
  IF pc = "walk" /\ stack # <<>> /\ stack[Len(stack)].field <= Len(stack[Len(stack)].shape)
  THEN LET top == stack[Len(stack)]
           key == top.shape[top.field].key
           def == top.shape[top.field].def
           value == Get(top.entity, key)
           listed == top.options.onlyFields.t = "undefined" \/ key \in top.options.onlyFields.keys
       IN IF ~listed \/ ~Truthy(value) THEN <<>>
          ELSE IF def.type = "ref" /\ def.refType # ""
          THEN << [key |-> key, refType |-> def.refType, ref |-> value ] >>
          ELSE IF /\ def.type = "array" /\ def.itemType.t = "field"
                  /\ def.itemType.type = "ref" /\ def.itemType.refType # ""
                  /\ top.item <= Len(value.a)
          THEN << [key |-> key, refType |-> def.itemType.refType, ref |-> value.a[top.item] ] >>
          ELSE <<>>
  ELSE <<>>

\* C16: in validateComposition, a reference (a ref field or an element of a
\* ref array) whose own type is present and differs from the declared refType
\* makes the call reject with the type-mismatch error in the step that
\* reaches it, without a call of resolveEntity in that step, and no call of
\* resolveEntity is ever made for a mismatching reference.
C16_MismatchBeforeResolve ==
  /\ [](\A i \in Resolutions : ~Mismatching(trace[i].arg, trace[i].refType))
  /\ [][ (Pending # <<>> /\ Mismatching(Pending[1].ref, Pending[1].refType))
           => /\ trace' = trace
              /\ pc' = "done"
              /\ ret' = Rejected(MismatchError(Pending[1].key, Pending[1].refType,
                                               Pending[1].ref)) ]_vars

\* A call rejected for a mismatching element of a ref array, after the
\* elements before it were resolved
C16_Witness ==
  /\ pc = "done"
  /\ ret = Rejected(MismatchError("others", "node", RefTo("other", "2")))
  /\ \E i \in Resolutions : trace[i].key = "others"

\* C17 (as stated): in a top-level call made without a validatorContext,
\* every entity (type:id) has its fields walked at most once.
C17_WalkedOnce ==
  (callOptions.t = "options" /\ callOptions.validatorContext.t = "undefined")
    => \A i, j \in Walks : trace[i].key = trace[j].key => i = j

\* C18 (as stated): when the caller omits maxDepth, the resolved target of
\* an eager, auto-validated reference with a registered schema, fewer than 5
\* hops from the root, is itself walked (or found visited).
C18_DefaultDepthFive ==
  (callOptions.t = "options" /\ callOptions.maxDepth.t = "undefined")
    => \A i \in Resolutions :
         ( /\ Truthy(trace[i].target)
           /\ autoValidate(trace[i].def) /\ refPolicy(trace[i].def) = "eager"
           /\ trace[i].refType \in DOMAIN globalSchemaRegistry
           /\ trace[i].hops < DeclaredMaxDepth )
         => /\ i < Len(trace)
            /\ trace[i + 1].fn \in {"walk", "skipVisited"}
            /\ trace[i + 1].key = entityKey(trace[i].target)

\* C19: when resolveEntity answers null or undefined for a reference, the
\* call is rejected with the broken-reference error naming the field, and that
\* call of resolveEntity is the last one: the walk is over.
C19_BrokenReferenceStops ==
  \A i \in Resolutions :
    IsNullish(trace[i].target)
      => /\ i = Len(trace)
         /\ pc = "done"
         /\ stack = <<>>
         /\ ret = Rejected(BrokenError(trace[i].key, trace[i].refType, trace[i].arg))

\* A call rejected for a broken reference of an entity below the root, while
\* the root still had an array of references to walk
C19_Witness ==
  /\ pc = "done"
  /\ ret = Rejected(BrokenError("next", "node", RefTo("node", "9")))
  /\ Cardinality(Resolutions) >= 2
  /\ Truthy(Get(input, "others"))
  /\ \A i \in Resolutions : trace[i].key # "others"

----------------------------------------------------------------------------
(* Properties of prepareForStorage *)

\* The key under which a field with a sealing action is stored
Renamed(key, action) == key \o (IF action = "encrypt" THEN "Encrypted" ELSE "Hash")

RECURSIVE SealedIn(_, _, _, _)

\* The field `key` described by def, holding `value` in the input, is sealed
\* in the output object `holder` at the same depth: with the action encrypt
\* or hash and a value it is there under its renamed key only, and so are the
\* fields below it (children of objects and refs, items of arrays)
SealedIn(def, value, key, holder) ==
  LET below == Get(holder, key)
      children(fields, to) ==
        \A n \in DOMAIN fields :
          SealedIn(fields[n].def, Get(value, fields[n].key), fields[n].key, to)
  IN IF piiAction(def) \in {"encrypt", "hash"}
     THEN IsNullish(value)
            \/ (HasKey(holder, Renamed(key, piiAction(def))) /\ ~HasKey(holder, key))
     ELSE IF piiAction(def) = "clear" THEN TRUE
     ELSE IF def.type \in {"object", "ref"} /\ def.shape.t = "shape" /\ IsObject(value)
     THEN children(def.shape.fields, below)
     ELSE IF def.type = "array" /\ def.itemType.t = "field" /\ IsArray(value)
     THEN \A i \in DOMAIN value.a :
            IF piiAction(def.itemType) \in {"encrypt", "hash"}
            THEN SealedIn(def.itemType, value.a[i], key, below.a[i])
            ELSE SealedIn(def.itemType, value.a[i], key, Put(EmptyObj, key, below.a[i]))
     ELSE TRUE

StorageDone == op = "prepareForStorage" /\ pc = "done"

\* C20 (as stated): in the output of prepareForStorage every field with the
\* action encrypt or hash that has a value, at any depth (top level, object
\* children, array elements, ref children), is there under its renamed key
\* only; its original key is absent at that depth.
C20_SealedEverywhere ==
  StorageDone =>
    \A n \in DOMAIN schema.shape :
      SealedIn(schema.shape[n].def, Get(input, schema.shape[n].key), schema.shape[n].key, ret)

----------------------------------------------------------------------------
(* Properties of prepareForRead *)

RECURSIVE RecoveredIn(_, _, _, _)

\* The field `key` described by def, holding `value` in the original entity,
\* is recovered in the object `holder` read back at the same depth: with the
\* action encrypt and a value the caller can decrypt it is there under its
\* own name with its original value, and so are the fields below it
RecoveredIn(def, value, key, holder) ==
  LET below == Get(holder, key)
  IN IF piiAction(def) = "encrypt"
     THEN value \in Plaintexts => below = value
     ELSE IF piiAction(def) \in {"hash", "clear"} THEN TRUE
     ELSE IF def.type \in {"object", "ref"} /\ def.shape.t = "shape" /\ IsObject(value)
     THEN \A n \in DOMAIN def.shape.fields :
            RecoveredIn(def.shape.fields[n].def, Get(value, def.shape.fields[n].key),
                        def.shape.fields[n].key, below)
     ELSE IF def.type = "array" /\ def.itemType.t = "field" /\ IsArray(value)
     THEN /\ IsArray(below)
          /\ Len(below.a) = Len(value.a)
          /\ \A i \in DOMAIN value.a :
               RecoveredIn(def.itemType, value.a[i], key, Put(EmptyObj, key, below.a[i]))
     ELSE TRUE

RoundTripDone == op = "roundTrip" /\ pc = "done"

\* C21 (as stated): for a field with action encrypt, at any depth,
\* prepareForRead(prepareForStorage(x, enc, hash), dec) holds the original
\* value of the field under its original name when dec is the inverse of enc.
C21_EncryptRoundTrip ==
  RoundTripDone =>
    \A n \in DOMAIN schema.shape :
      RecoveredIn(schema.shape[n].def, Get(input, schema.shape[n].key), schema.shape[n].key, ret)

----------------------------------------------------------------------------
(* Properties of sanitizeForLog *)

RECURSIVE OmittedIn(_, _, _, _, _)

\* The field `key` described by def is left out of the logged object
\* `holder` when its logHandling is omit, and so are the fields below it;
\* `kept` are the names excepted at this depth, which are the identity of a
\* reference below a ref when `identityKept`
OmittedIn(def, key, holder, kept, identityKept) ==
  LET below == Get(holder, key)
      identity == IF def.type = "ref" /\ identityKept THEN {"type", "id"} ELSE {}
  IN IF logHandling(def) = "omit"
     THEN key \in kept \/ ~HasKey(holder, key)
     ELSE IF logHandling(def) \in {"redact", "pseudonym"} THEN TRUE
     ELSE IF def.type \in {"object", "ref"} /\ def.shape.t = "shape"
     THEN IsObject(below) =>
            \A n \in DOMAIN def.shape.fields :
              OmittedIn(def.shape.fields[n].def, def.shape.fields[n].key, below,
                        identity, identityKept)
     ELSE IF def.type = "array" /\ def.itemType.t = "field" /\ logHandling(def.itemType) # "omit"
     THEN IsArray(below) =>
            \A i \in DOMAIN below.a :
              OmittedIn(def.itemType, key, Put(EmptyObj, key, below.a[i]), {}, identityKept)
     ELSE TRUE

LogDone == op = "sanitizeForLog" /\ pc = "done"

----------------------------------------------------------------------------
(* Properties of scrubPiiForDelete *)

RECURSIVE ScrubbedIn(_, _, _, _)

\* The field `key` described by def, held by the object `before` in what
\* was stored, is scrubbed in the object `after` of the result at the same
\* depth: with the action encrypt or hash its derived key, if it was there,
\* is null; with the action clear the field, if it was there, is null; with
\* no action it holds what was stored; and so for the fields below it
ScrubbedIn(def, key, before, after) ==
  LET derived == Renamed(key, piiAction(def))
      was == Get(before, key)
      is == Get(after, key)
  IN IF piiAction(def) \in {"encrypt", "hash"}
     THEN IF HasKey(before, derived) THEN Get(after, derived) = Null
          ELSE ~HasKey(after, derived)
     ELSE IF piiAction(def) = "clear"
     THEN IF HasKey(before, key) THEN is = Null ELSE ~HasKey(after, key)
     ELSE IF def.type \in {"object", "ref"} /\ def.shape.t = "shape" /\ IsObject(was)
     THEN /\ IsObject(is)
          /\ \A n \in DOMAIN def.shape.fields :
               ScrubbedIn(def.shape.fields[n].def, def.shape.fields[n].key, was, is)
     ELSE IF def.type = "array" /\ def.itemType.t = "field" /\ IsArray(was)
     THEN /\ IsArray(is)
          /\ Len(is.a) = Len(was.a)
          /\ \A i \in DOMAIN was.a :
               IF piiAction(def.itemType) \in {"encrypt", "hash"}
               THEN ScrubbedIn(def.itemType, key, was.a[i], is.a[i])
               ELSE ScrubbedIn(def.itemType, key, Put(EmptyObj, key, was.a[i]),
                               Put(EmptyObj, key, is.a[i]))
     ELSE is = was /\ (HasKey(after, key) <=> HasKey(before, key))

ScrubDone == op = "scrubPiiForDelete" /\ pc = "done"

\* C23 (as stated): scrubPiiForDelete returns a copy: `stored`, with its
\* nested objects and array elements, is what it was before the call; and in
\* the result a field with no action holds its stored value, the derived key
\* of an encrypt or hash field that was stored is null, and a clear field
\* that was stored is null.
C23_ScrubIsACopy ==
  ScrubDone =>
    /\ input = input0
    /\ \A n \in DOMAIN schema.shape :
         ScrubbedIn(schema.shape[n].def, schema.shape[n].key, input0, ret)

----------------------------------------------------------------------------
(* Properties of repeated validation *)

\* C24: for an entity e with validate(e).valid, validate(validate(e).value)
\* is valid and returns the same value.
C24_Idempotent ==
  (Revalidating /\ pc = "done") => (ret.valid /\ ret.value = trace[1].ret.value)

\* A second call after a first one that ran the schema-level upgrade on an
\* entity of an older version and applied a default
C24_Witness ==
  /\ Revalidating /\ pc = "done"
  /\ Len(trace) > 1
  /\ Get(trace[1].input, "version") = Str("1.0.0")
  /\ Get(ret.value, "version") = Str(SchemaVersion)
  /\ ~HasKey(trace[1].input, "f")
  /\ Get(ret.value, "f") = Str("D")

----------------------------------------------------------------------------
(* Properties of Schema.upgrade.                                           *)

\* upgrade has returned ok: true
UpgradeOk == op = "upgrade" /\ pc = "done" /\ ret.ok

\* C25: whenever upgrade returns ok: true, the returned value's type is the
\* schema's entity type and its version is the schema's version: when nothing
\* was to do (the entity is at or beyond the schema's version, or the schema
\* has no schemaUpgrade), with one upgrade function and with a cascade,
\* whatever type and version the input or the upgrade functions supplied.
C25_UpgradeStamps ==
  UpgradeOk =>
    /\ Get(ret.value, "type") = Str(schema.entityType)
    /\ Get(ret.value, "version") = Str(schema.version)

\* A cascade whose last step stamped type "B" and version "0.0.0" on an
\* entity of type "B", and upgrade returned ok
C25_Witness ==
  /\ UpgradeOk
  /\ schema.schemaUpgrade.kind = "steps"
  /\ Get(input, "type") = Str("B")
  /\ Len(trace) > 0
  /\ trace[Len(trace)].run = "restamp"

----------------------------------------------------------------------------
(* Properties of cmpSemver.                                                *)

\* A component as an integer, a missing or non-numeric one as 0
AsInteger(p, i) ==
  IF i <= Len(p) /\ p[i] \in {"0", "1", "2", "3"} THEN parseInt(p[i]) ELSE 0

\* The order of major, minor, patch compared as three integers in that order
RECURSIVE ThreeIntegers(_, _, _)
ThreeIntegers(pa, pb, i) ==
  IF i > 3 THEN 0
  ELSE IF AsInteger(pa, i) > AsInteger(pb, i) THEN 1
  ELSE IF AsInteger(pa, i) < AsInteger(pb, i) THEN -1
  ELSE ThreeIntegers(pa, pb, i + 1)

\* C27: cmpSemver compares major, minor and patch as three integers in that
\* order, and a missing or non-numeric component compares exactly as 0
\* ("1.x.0" orders as "1.0.0", below "1.1.0").
C27_NonNumericIsZero ==
  (op = "cmpSemver" /\ pc = "done") =>
    ret = Num(ThreeIntegers(Split(input.o.a.s), Split(input.o.b.s), 1))

----------------------------------------------------------------------------
(* Termination of validateComposition *)

\* The caller supplied a finite maxDepth n >= 0
SuppliedDepth ==
  /\ op = "validateComposition"
  /\ callOptions.maxDepth.t = "number"
  /\ callOptions.maxDepth.n >= 0

\* The number of reference hops from the root to the entity the innermost
\* call is walking
Hops == Len(stack) - 1

\* C26: for a caller-supplied finite maxDepth n >= 0 and a resolver that
\* always returns, validateComposition terminates on every finite reference
\* graph, cyclic ones included, and never walks an entity more than n
\* reference hops away from the root.
C26_TerminatesWithinDepth ==
  /\ [](SuppliedDepth /\ stack # <<>> => Hops <= callOptions.maxDepth.n)
  /\ (SuppliedDepth ~> pc = "done")

\* A root that refers to itself, walked without a validatorContext and with
\* maxDepth 2: the cycle was followed for two hops and the call resolved
C26_Witness ==
  /\ SuppliedDepth
  /\ callOptions.maxDepth = Num(2)
  /\ callOptions.validatorContext = Undefined
  /\ Get(input, "next") = RefTo("node", "1")
  /\ pc = "done"
  /\ ret = Resolved
  /\ Cardinality(Walks) = 3

----------------------------------------------------------------------------
(* Schema-level and field-level upgrade in one call of validate.           *)

\* The schema-level upgrade of this validate call ran and succeeded: its
\* functions were called and the call went on to the field loop
SchemaUpgradeSucceeded ==
  /\ op = "validate"
  /\ \E i \in DOMAIN trace : trace[i].fn = "schemaUpgrade"
  /\ pc = "loop" \/ (pc = "done" /\ idx > Len(schema.shape))

\* C28: schema-level and field-level upgrade are mutually exclusive within
\* one validate call: when the schema-level upgrade ran successfully, the
\* working version is the schema's version from before the field loop on, and
\* no field-level upgrader is invoked in that call.
C28_UpgradesExclusive ==
  SchemaUpgradeSucceeded =>
    /\ VersionOf(working) = schema.version
    /\ \A i \in DOMAIN trace : trace[i].fn # "fieldUpgrade"

\* A call whose schema-level upgrade succeeded and whose field f has an
\* upgrader and a value that its validator rejects: the call returns invalid
C28_Witness ==
  /\ SchemaUpgradeSucceeded
  /\ pc = "done"
  /\ \E e \in Entries : e.key = "f" /\ e.def.upgrade = "toA" /\ e.def.validator = "isA"
  /\ Get(input0, "f") = Str("B")
  /\ ~ret.valid

\* C29: when an entity stored at an older version is validated with its own
\* stored copy as `existing` and the schema-level upgrade succeeds, the
\* re-stamp of the version does not produce the error
\* "Field is immutable: version".
C29_RestampNotImmutable ==
  (SchemaUpgradeSucceeded /\ existing = input0)
    => ~Includes(errors, "Field is immutable: version")

----------------------------------------------------------------------------
(* validate and Schema.upgrade on the same entity.                         *)

\* The upgrade functions a sequence of calls executed: which function, for
\* which target, from which version
Executions(calls) ==
  [i \in 1..Len(calls) |-> [run |-> calls[i].run, to |-> calls[i].to, from |-> calls[i].from]]

\* C30: validate and Schema.upgrade agree on whether an entity needs the
\* schema-level upgrade: for every input, one with no version included, the
\* upgrade functions are executed by validate if and only if they are
\* executed by upgrade on the same input, with the same starting version.
C30_SameUpgradeDecision ==
  (Comparing /\ op = "upgrade" /\ pc = "done")
    => Executions(SubSeq(trace, 2, Len(trace))) = Executions(trace[1].calls)

====
